---- MODULE Spec2Model ----
(***************************************************************************)
(* Model of the test sequencing and result-aggregation engine of the       *)
(* iot-tester station: TestResult (models/test_result.py), TestRunner      *)
(* (engine/test_runner.py), TEST_SEQUENCE (engine/sequence_definition.py)  *)
(* and the device handles of the HAL as far as the runner drives them.     *)
(*                                                                         *)
(* The specifications share the variables:                                 *)
(*   Spec          one run of TestRunner.run_full_test on a worker thread, *)
(*                 with the operator thread able to set the stop flag;     *)
(*   SpecSequence  the same run with TEST_SEQUENCE bound to short          *)
(*                 programs, some with a key that names no handler;        *)
(*   SpecSleep     the same run with the sleep-current step as the only    *)
(*                 step, under every configuration of the threshold;       *)
(*   SpecReport    _report calls taken statement by statement, with a      *)
(*                 callback that may raise;                                *)
(*   SpecResult    a TestResult object driven by arbitrary add_step and    *)
(*                 finalize calls while the wall clock advances;           *)
(*   SpecRelay     a RelayController object (hal/relays.py) driven by      *)
(*                 arbitrary connect, set_relay and disconnect calls       *)
(*                 against a relay board that may be absent or fail.       *)
(*   SpecSerial    an RS485Controller object (hal/rs485.py) driven by      *)
(*                 connect, send_command and disconnect calls, the read    *)
(*                 loop of send_command taken line by line;                *)
(*   SpecSerialLive  SpecSerial with the worker's steps weakly fair;       *)
(*   SpecRerun     run_full_test invoked again on the same TestRunner.     *)
(***************************************************************************)
EXTENDS Integers, Sequences, FiniteSets, TLC

\* ------------------------------------------------------------------ bounds
\* Number of device faults (device errors, stuck relays, timeouts,
\* out-of-threshold readings) injected into one run.  A fault persists: a
\* device whose connect() raised needs no further fault to raise again in
\* its disconnect().
MaxFaults == 1
\* SpecResult: number of add_step calls, finalize calls and clock ticks.
MaxSteps == 3
MaxFinalize == 2
MaxClock == 3
\* Largest sleep-current threshold (uA) of a configuration.
MaxUa == 1
\* SpecRelay: largest num_relays of a board, number of calls on the
\* controller.
MaxRelays == 2
MaxRelayCalls == 3

\* ------------------------------------------------------------ result model
\* end_time: datetime | None = None
NoTime == -1

Statuses == {"PASS", "FAIL", "INFO", "TESTING", "HEADER"}

\* self.test_result = None (TestRunner.__init__)
NoTestResult ==
    [obj |-> FALSE, serial_number |-> "NOT_READ", overall_status |-> "PASS",
     start_time |-> NoTime, end_time |-> NoTime, steps |-> << >>]

\* A result whose end_time defaults to the construction time.
NewTestResult_end_now(now) ==
    [obj |-> TRUE, serial_number |-> "NOT_READ", overall_status |-> "PASS",
     start_time |-> now, end_time |-> now, steps |-> << >>]

\* TestResult(station_id=...): the dataclass defaults; start_time is
\* datetime.now() at construction.
NewTestResult(now) ==
    [obj |-> TRUE, serial_number |-> "NOT_READ", overall_status |-> "PASS",
     start_time |-> now, end_time |-> NoTime, steps |-> << >>]

\* TestStepResult(step_name=f"Paso {step_counter}", status, message,
\* details=details or {}); details is modelled by its set of keys.
TestStepResult(counter, status, message, details) ==
    [step_name |-> counter, status |-> status, message |-> message,
     details |-> details]

\* step_name=f"Paso {self.step_counter}": the text stored in a record
PasoName(counter) == "Paso " \o ToString(counter)

\* add_step as a slip would write it: the overall status follows the last
\* step instead of latching FAIL.
add_step_last_wins(tr, step) ==
    [tr EXCEPT !.steps = Append(@, step),
               !.overall_status = IF step.status = "FAIL" THEN "FAIL" ELSE "PASS"]

\* add_step as a slip would write it: every status other than PASS fails
\* the run.
add_step_non_pass_fails(tr, step) ==
    [tr EXCEPT !.steps = Append(@, step),
               !.overall_status = IF step.status # "PASS" THEN "FAIL" ELSE @]

\* TestResult.add_step
add_step(tr, step) ==
    [tr EXCEPT !.steps = Append(@, step),
               !.overall_status = IF step.status = "FAIL" THEN "FAIL" ELSE @]

\* TestResult.finalize: end_time = datetime.now(), unconditionally
finalize(tr, now) ==
    [tr EXCEPT !.end_time = now]

\* TestResult.to_dict: the serialisable document (serial number, overall
\* status, the two times, the step records in order).
to_dict(tr) ==
    [serial_number |-> tr.serial_number, overall_status |-> tr.overall_status,
     start_time |-> tr.start_time, end_time |-> tr.end_time,
     steps |-> tr.steps]

\* ------------------------------------------------------- sequence program
\* TEST_SEQUENCE: the ordered step descriptors; args defaults to [].
TEST_SEQUENCE ==
    << [key |-> "test_step_connect_battery",      args |-> << >>],
       [key |-> "test_step_apply_vin",            args |-> << >>],
       [key |-> "test_step_check_initial_status", args |-> << >>],
       [key |-> "test_step_measure_active_power", args |-> << >>],
       [key |-> "test_step_test_tampers",         args |-> << >>],
       [key |-> "test_step_test_onboard_relay",   args |-> << >>],
       [key |-> "test_step_disconnect_battery",   args |-> << >>],
       [key |-> "test_step_simulate_battery",     args |-> << >>],
       [key |-> "test_step_disconnect_vin",       args |-> << >>],
       [key |-> "test_step_check_board_status",   args |-> <<"STORED">>],
       [key |-> "test_step_set_low_power_mode",   args |-> << >>],
       [key |-> "test_step_measure_sleep_current", args |-> << >>],
       [key |-> "test_step_wakeup_from_sleep",    args |-> << >>],
       [key |-> "test_step_send_current_result",  args |-> << >>],
       [key |-> "test_step_get_barcode",          args |-> << >>],
       [key |-> "test_step_modem_send",           args |-> << >>] >>

\* The lookup name without the leading underscore.
MethodName_no_prefix(step_key) == step_key

\* method_name = f"_{step_key}"
MethodName(step_key) == "_" \o step_key

\* The methods TestRunner defines whose names start with "_test_step_".
TestRunnerMethods ==
    { "_test_step_connect_battery", "_test_step_apply_vin",
      "_test_step_check_initial_status", "_test_step_measure_active_power",
      "_test_step_test_tampers", "_test_step_test_onboard_relay",
      "_test_step_disconnect_battery", "_test_step_simulate_battery",
      "_test_step_disconnect_vin", "_test_step_check_board_status",
      "_test_step_set_low_power_mode", "_test_step_measure_sleep_current",
      "_test_step_wakeup_from_sleep", "_test_step_send_current_result",
      "_test_step_get_barcode", "_test_step_modem_send",
      "_test_step_check_relays", "_test_step_check_ina3221_averaged",
      "_test_step_measure_current" }

\* ---------------------------------------------------------------- reporter
\* One _report call: (message, status, step_id, details).
Rep(message, status, step_id, details) ==
    [message |-> message, status |-> status, step_id |-> step_id,
     details |-> details]

\* No _report call in progress.
NoReport == Rep("", "NONE", "None", {})

\* _report lines 45-46: if self.callback: self.callback(step_id, message,
\* status), on the reporter state s (the result and the stream of callback
\* invocations).
report_callback(s, cb, r) ==
    [tr |-> s.tr,
     ui |-> IF cb THEN Append(s.ui, <<r.step_id, r.message, r.status>>)
                  ELSE s.ui]

\* _report lines 48-55: if self.test_result: add_step(TestStepResult(...))
report_add_step(s, counter, r) ==
    [tr |-> IF s.tr.obj
              THEN add_step(s.tr, TestStepResult(counter, r.status,
                                                 r.message, r.details))
              ELSE s.tr,
     ui |-> s.ui]

\* TestRunner._report run from its first to its last line: callback first
\* (if set), then add_step on the result (if there is one).
report(s, cb, counter, r) ==
    report_add_step(report_callback(s, cb, r), counter, r)

RECURSIVE report_all(_, _, _, _)
\* Consecutive _report calls of one handler, in order.
report_all(s, cb, counter, rs) ==
    IF rs = << >> THEN s
    ELSE report_all(report(s, cb, counter, Head(rs)), cb, counter, Tail(rs))

\* ------------------------------------------------------------------- state
VARIABLES
    pc,               \* position of the worker in run_full_test
    idx,              \* index into TEST_SEQUENCE of the for loop
    step_counter,     \* TestRunner.step_counter
    test_result,      \* TestRunner.test_result
    ui,               \* the callback invocations so far: <<step_id, message, status>>
    callback,         \* whether gui_callback is set (if self.callback)
    stop_event,       \* threading.Event shared with the operator thread
    stop_on_fail,     \* config.stop_on_fail
    sequence,         \* the TEST_SEQUENCE list _run_test_steps iterates over
    threshold_sleep_current_ua, \* config.threshold_sleep_current_ua
    relay_board,      \* the HID relay board: [present, commands received]
    response_lines,   \* send_command's local list of response lines
    line_bytes,       \* send_command's local: what readline() returned last
    dut_power,        \* whether the PPK2 source output feeds the DUT
    reporting,        \* arguments of the _report call in progress (SpecReport)
    relay_controller, \* handle: [obj, relay_device]
    rs485_controller, \* handle: [obj, serial_conn]
    ppk2_meter,       \* handle: [obj, ppk2_api]
    ina3221_meter,    \* handle: [obj, channels]
    clock,            \* wall clock read by datetime.now()
    faults,           \* device deviations injected so far
    exc,              \* the exception in flight: where it was raised, or "none"
    returned,         \* value run_full_test returned, "raised", or "running"
    hist              \* observation of the run (not program state)

vars == << pc, idx, step_counter, test_result, ui, callback, stop_event,
           stop_on_fail, sequence,
           threshold_sleep_current_ua, response_lines, line_bytes,
                    dut_power,
                    relay_board, reporting, relay_controller,
           rs485_controller, ppk2_meter,
           ina3221_meter, clock, faults, exc, returned, hist >>

\* ----------------------------------------------------------- step handlers
\* A handler is modelled by the message key it gives _start_step and the set
\* of its possible outcomes.  An outcome is the sequence of _report calls the
\* handler makes after _start_step, whether an exception leaves the handler,
\* the number of device deviations (cost) the outcome needs, the values the
\* handler read from the devices on the way (readings), and the state in
\* which it leaves the PPK2 source output ("same": untouched).
Outcome(reports, escaped, cost) ==
    [reports |-> reports, escaped |-> escaped, cost |-> cost,
     readings |-> << >>, power |-> "same"]

\* The outcome o of a handler that used a PowerMeterPPK2 in a with block:
\* set_dut_power(True) inside it, and on the way out __exit__ ->
\* disconnect() -> stop_measuring(), set_dut_power(False), which leaves the
\* output "off", or "on" when the disconnect raised before switching it.
Power(o, p) == [o EXCEPT !.power = p]

\* The outcome o of a handler that read the values rs from its devices.
Reading(o, rs) == [o EXCEPT !.readings = rs]

HandlerDef(start_key, outcomes) ==
    [start_key |-> start_key, outcomes |-> outcomes]

\* Number of FALSE entries of a boolean sequence.
RECURSIVE CountFalse(_)
CountFalse(b) ==
    IF b = << >> THEN 0
    ELSE (IF Head(b) THEN 0 ELSE 1) + CountFalse(Tail(b))

\* Boolean sequences of length 0..n: the sub-checks done so far and whether
\* each agreed with the expectation.
Prefixes(n) == UNION { [1..k -> BOOLEAN] : k \in 0..n }

\* A handler that makes n sub-checks inside one try block (passReps[i] and
\* failReps[i] are the two reports of sub-check i): each sub-check reports
\* PASS or FAIL; an exception after k < n sub-checks ends the block and the
\* except clause reports err.
SubcheckOutcomes(passReps, failReps, err) ==
    { Outcome([i \in 1..Len(b) |-> IF b[i] THEN passReps[i] ELSE failReps[i]]
                 \o (IF Len(b) = Len(passReps) THEN << >> ELSE <<err>>),
              FALSE,
              CountFalse(b) + (IF Len(b) = Len(passReps) THEN 0 ELSE 1))
      : b \in Prefixes(Len(passReps)) }

\* The values relay_controller.get_relay_state(relay_id) returns: the state
\* the board reports for the relay, get(id) -> bool of the relay capability
\* (RelayController defines no such method).
GetRelayState == BOOLEAN

\* state was commanded with set_relay, readback came from get_relay_state.
RelayReading(state, readback) ==
    [kind |-> "relay", commanded |-> state, expected |-> state,
     actual |-> readback]

\* The verdict of a relay step that trusts the command: PASS whatever the
\* read-back says.
relay_step_report_blind(state, readback, passMsg, failMsg) ==
    Rep(passMsg, "PASS", "None", {})

\* lines 204-207 (relay set ON: if get_relay_state(...)) and 317-320 (relay
\* set OFF: if not get_relay_state(...)): PASS, else FAIL.
relay_step_report(state, readback, passMsg, failMsg) ==
    IF (state /\ readback) \/ (~state /\ ~readback)
      THEN Rep(passMsg, "PASS", "None", {})
      ELSE Rep(failMsg, "FAIL", "None", {})

\* The relay steps: set_relay(relay_id, state), sleep, get_relay_state
\* read-back and verdict; a read-back that disagrees is a stuck relay; an
\* exception of the board is reported FAIL by the except clause.
RelayStepOutcomes(state, passMsg, failMsg, errMsg) ==
    { Reading(Outcome(<<relay_step_report(state, readback, passMsg, failMsg)>>,
                      FALSE, IF readback = state THEN 0 ELSE 1),
              <<RelayReading(state, readback)>>)
      : readback \in GetRelayState }
    \cup { Outcome(<<Rep(errMsg,  "FAIL", "None", {})>>, FALSE, 1) }

\* _test_step_connect_battery
test_step_connect_battery ==
    HandlerDef("step_connect_battery",
        RelayStepOutcomes(TRUE,
                          "Bateria conectada correctamente -> PASS",
                          "Fallo al conectar la bateria -> FAIL",
                          "Error al conectar la bateria"))

\* _test_step_apply_vin (its start message key is step_connect_battery)
test_step_apply_vin ==
    HandlerDef("step_connect_battery",
        RelayStepOutcomes(TRUE,
                          "Vin activado correctamente -> PASS",
                          "Fallo al activar Vin -> FAIL",
                          "Error al activar Vin"))

\* The keys of the dict RS485Controller.check_initial_status builds.
InfoKeys == {"serial", "imei", "iccid", "status"}

\* What send_command hands back for one query: the response lines, or
\* nothing (None on a timeout, [] on a bare prompt).
DutAnswer == <<"value">>
NoAnswer == << >>

\* RS485Controller.check_initial_status: a dict of four entries, each the
\* result of one send_command (GETSERIAL, GETIMEI, GETICCID, GETSTATUS).
check_initial_status(answers) == [k \in InfoKeys |-> answers[k]]

\* info = check_initial_status() as the handler read it
InfoReading(info) == [kind |-> "dut_info", info |-> info]

InitialStatusPass ==
    Rep("Comunicacion OK. S/N, IMEI, ICCID, Estado", "PASS",
        "check_initial_status", {})

InitialStatusFail ==
    Rep("Fallo al leer informacion del dispositivo o respuesta invalida.",
        "FAIL", "check_initial_status", {})

\* lines 232-240: if response and len(response) > 5: PASS, else: FAIL.
\* response is the dict, so its truth value and its length are those of its
\* set of keys.
initial_status_report(response) ==
    IF DOMAIN response # {} /\ Cardinality(DOMAIN response) > 5
      THEN InitialStatusPass
      ELSE InitialStatusFail

\* _test_step_check_initial_status: no try block.  The DUT answers the four
\* queries and the verdict is reported, or send_command raises and the
\* exception leaves the handler.
test_step_check_initial_status ==
    HandlerDef("step_check_initial_status",
        { LET info == check_initial_status([k \in InfoKeys |-> DutAnswer])
          IN  Reading(Outcome(<<initial_status_report(info)>>, FALSE, 0),
                      <<InfoReading(info)>>),
          Outcome(<< >>, TRUE, 1) })

\* _test_step_measure_active_power: three channels, each PASS with details
\* or FAIL when read_channel returns None.
MeasureChannelPass(ch) ==
    Rep("Canal: V, mA", "PASS", "measure_active_power",
        {"channel", "voltage", "current"})

MeasureChannelFail(ch) ==
    Rep("Fallo al leer el canal -> FAIL", "FAIL", "measure_active_power", {})

test_step_measure_active_power ==
    HandlerDef("step_measure_active_power",
        SubcheckOutcomes([ch \in 1..3 |-> MeasureChannelPass(ch)],
                         [ch \in 1..3 |-> MeasureChannelFail(ch)],
                         Rep("Error al medir INA3221", "FAIL", "None", {})))

\* _test_step_test_tampers, lines 297-300: the four calls of
\* test_tamper_combination(relay1_state, relay2_state, expected1, expected2),
\* in order.
TamperCombinations ==
    << [relays |-> <<FALSE, FALSE>>, expected |-> <<FALSE, FALSE>>],
       [relays |-> <<TRUE,  FALSE>>, expected |-> <<TRUE,  FALSE>>],
       [relays |-> <<FALSE, TRUE>>,  expected |-> <<FALSE, TRUE>>],
       [relays |-> <<TRUE,  TRUE>>,  expected |-> <<TRUE,  TRUE>>] >>

TamperPass(i) ==
    Rep("Reles -> Estado esperado -> PASS", "PASS", "None", {})

TamperFail(i) ==
    Rep("Reles -> Esperado, Obtenido -> FAIL", "FAIL", "None", {})

TamperError ==
    Rep("Error al verificar los reles de tamper", "FAIL", "None", {})

\* lines 278-279: actual1, actual2 come from relay_controller.get_relay_state
\* of the two tamper relays (the relay board, not a query to the DUT).
TamperReading(i, actual) ==
    [kind |-> "relay", commanded |-> TamperCombinations[i].relays,
     expected |-> TamperCombinations[i].expected, actual |-> actual]

\* lines 281-290: if actual1 == expected1 and actual2 == expected2: PASS,
\* else: FAIL; the helper returns either way.
tamper_combination_report(i, expected, actual) ==
    IF actual[1] = expected[1] /\ actual[2] = expected[2]
      THEN TamperPass(i) ELSE TamperFail(i)

\* The read-backs of the combinations done before the try block ended:
\* all four, or fewer when set_relay / get_relay_state raised.
TamperReadbacks ==
    UNION { [1..k -> GetRelayState \X GetRelayState] : k \in 0..4 }

\* _test_step_test_tampers: one report per combination done; an exception
\* ends the block and the except clause reports it.
test_step_test_tampers ==
    HandlerDef("step_test_tampers",
        { LET n == Len(acts)
              exp(i) == TamperCombinations[i].expected
              stuck == { <<i, r>> \in (1..n) \X {1, 2} : acts[i][r] # exp(i)[r] }
          IN  Reading(
                Outcome([i \in 1..n |->
                            tamper_combination_report(
                                i, TamperCombinations[i].expected, acts[i])]
                          \o (IF n = 4 THEN << >> ELSE <<TamperError>>),
                        FALSE,
                        Cardinality(stuck) + (IF n = 4 THEN 0 ELSE 1)),
                [i \in 1..n |-> TamperReading(i, acts[i])])
          : acts \in TamperReadbacks })

\* _test_step_test_onboard_relay
test_step_test_onboard_relay ==
    HandlerDef("step_test_onboard_relay",
        RelayStepOutcomes(FALSE,
                          "Rele de tamper desactivado correctamente -> PASS",
                          "Fallo al desactivar el rele de tamper -> FAIL",
                          "Error al verificar el rele de la placa"))

\* _test_step_disconnect_battery
test_step_disconnect_battery ==
    HandlerDef("step_disconnect_battery",
        RelayStepOutcomes(FALSE,
                          "Bateria desconectada correctamente -> PASS",
                          "Fallo al desconectar la bateria -> FAIL",
                          "Error al desconectar la bateria"))

PPK2Info == Rep("PPK2 configurado y alimentacion ON.", "INFO", "None", {})

SimulateBatteryPass ==
    Rep("3v7 activado correctamente -> PASS", "PASS", "None", {})

\* _test_step_simulate_battery: a PowerMeterPPK2 of its own in a with block;
\* connect may raise before the reports, the __exit__ disconnect runs after
\* them, when the block is left, and may raise.
test_step_simulate_battery ==
    HandlerDef("step_simulate_battery",
        { Power(Outcome(<<PPK2Info, SimulateBatteryPass>>, FALSE, 0), "off"),
          Outcome(<<Rep("Error al activar 3v7", "FAIL", "None", {})>>, FALSE, 1),
          Power(Outcome(<<PPK2Info, SimulateBatteryPass,
                          Rep("Error al activar 3v7", "FAIL", "None", {})>>,
                        FALSE, 1), "on") })

\* _test_step_disconnect_vin
test_step_disconnect_vin ==
    HandlerDef("step_disconnect_vin",
        RelayStepOutcomes(FALSE,
                          "Vin desactivado correctamente -> PASS",
                          "Fallo al desactivar Vin -> FAIL",
                          "Error al desactivar Vin"))

\* _test_step_check_board_status(expected_status): send_command returns a
\* list of lines or None.  None or [] reports "no response"; a list makes
\* json.loads raise TypeError, which the last except clause reports.  (Its
\* start message key is step_check_initial_status.)
test_step_check_board_status(expected_status) ==
    HandlerDef("step_check_initial_status",
        { Outcome(<<Rep("Error al comprobar el estado del dispositivo", "FAIL", "None", {})>>,
                  FALSE, 0),
          Outcome(<<Rep("No se recibio respuesta del GETSTATUS.", "FAIL", "None", {})>>,
                  FALSE, 1) })

\* _test_step_set_low_power_mode
test_step_set_low_power_mode ==
    HandlerDef("step_set_low_power_mode",
        { Outcome(<<Rep("Dispositivo enviado a modo de bajo consumo -> PASS", "PASS", "None", {})>>,
                  FALSE, 0),
          Outcome(<<Rep("Fallo al enviar comando de bajo consumo -> FAIL", "FAIL", "None", {})>>,
                  FALSE, 1),
          Outcome(<<Rep("Error al enviar comando de bajo consumo", "FAIL", "None", {})>>,
                  FALSE, 1) })

\* threshold_sleep_current_ua when the configuration has no
\* sleep_current_max_ua entry (dict.get returns None).
NoThreshold == -1

\* The configurations of the threshold SpecSleep draws from.
Thresholds == {NoThreshold} \cup 0..MaxUa

\* What measure_average_current(duration_s=3) returns, in whole uA (0
\* without samples): the readings next to the threshold, or 0 and 1 when
\* no threshold is configured.
SleepReadings(threshold_ua) ==
    IF threshold_ua = NoThreshold THEN {0, 1}
    ELSE { a \in {threshold_ua - 1, threshold_ua, threshold_ua + 1} : a >= 0 }

\* avg_current = ppk2.measure_average_current(...)
CurrentReading(avg_current) == [kind |-> "current", value |-> avg_current]

SleepPass ==
    Rep("Corriente medida en bajo consumo -> PASS", "PASS", "None", {})

SleepFail ==
    Rep("Corriente medida en bajo consumo (supera el umbral) -> FAIL", "FAIL",
        "None", {})

SleepError ==
    Rep("Error al medir corriente en bajo consumo", "FAIL", "None", {})

\* The comparison as a slip would write it: a reading equal to the
\* threshold passes.
sleep_current_report_inclusive(avg_current, threshold_ua) ==
    IF avg_current <= threshold_ua THEN SleepPass ELSE SleepFail

\* lines 430-434: if avg_current < threshold_ua: PASS, else: FAIL; neither
\* report carries details.
sleep_current_report(avg_current, threshold_ua) ==
    IF avg_current < threshold_ua THEN SleepPass ELSE SleepFail

RECURSIVE SumSamples(_)
\* sum(all_samples)
SumSamples(samples) ==
    IF samples = << >> THEN 0 ELSE Head(samples) + SumSamples(Tail(samples))

\* PowerMeterPPK2.measure_average_current, lines 115-121: 0.0 when no
\* sample was collected in the window, else the mean of the samples (in
\* whole uA).
measure_average_current(all_samples) ==
    IF all_samples = << >> THEN 0
    ELSE SumSamples(all_samples) \div Len(all_samples)

\* _test_step_measure_sleep_current: a PowerMeterPPK2 of its own in a with
\* block.  connect/configure may raise before the INFO report;
\* measure_average_current raises or returns a float (never None), from the
\* samples of the window or from none at all (a meter that delivers no
\* data, one deviation); the comparison with a threshold of None raises
\* TypeError; the __exit__ disconnect may raise after the PASS/FAIL report.
\* The except clause turns each exception into one FAIL report.  The
\* readings are the value returned and the number of samples behind it.
test_step_measure_sleep_current(threshold_ua) ==
    HandlerDef("step_measure_sleep_current",
        { Outcome(<<SleepError>>, FALSE, 1),
          Power(Outcome(<<PPK2Info, SleepError>>, FALSE, 1), "off") }
        \cup
        UNION {
          LET a == measure_average_current(samples)
              seen == <<CurrentReading(a),
                        [kind |-> "samples", value |-> Len(samples)]>>
              nodata == IF samples = << >> THEN 1 ELSE 0
          IN
          IF threshold_ua = NoThreshold
            THEN { Reading(Power(Outcome(<<PPK2Info, SleepError>>, FALSE, nodata),
                                 "off"), seen) }
            ELSE LET r == sleep_current_report(a, threshold_ua)
                     c == (IF a < threshold_ua THEN 0 ELSE 1) + nodata
                 IN  { Reading(Power(Outcome(<<PPK2Info, r>>, FALSE, c), "off"),
                               seen),
                       Reading(Power(Outcome(<<PPK2Info, r, SleepError>>,
                                             FALSE, c + 1), "on"), seen) }
          : samples \in {<< >>} \cup { <<a>> : a \in SleepReadings(threshold_ua) } })

\* _test_step_wakeup_from_sleep: the response (list or None) never equals
\* the string "STATUS=1".
test_step_wakeup_from_sleep ==
    HandlerDef("step_wakeup_from_sleep",
        { Outcome(<<Rep("Estado inesperado -> FAIL", "FAIL", "None", {})>>, FALSE, 0),
          Outcome(<<Rep("Error al esperar modo normal", "FAIL", "None", {})>>, FALSE, 1) })

\* command_to_send = f"{SET_LAST_CURRENT}={avg_current:.2f}": the value
\* handed to send_command (two decimals leave a whole number of uA as it
\* is).
SentCurrent(avg_current) == [kind |-> "sent", value |-> avg_current]

SendCurrentFail ==
    Rep("Fallo al enviar corriente al DUT -> FAIL", "FAIL", "None", {})

SendCurrentError == Rep("Error al enviar corriente uA", "FAIL", "None", {})

\* _test_step_send_current_result: a PowerMeterPPK2 of its own in a with
\* block; it calls measure_average_current itself and sends that value (a
\* DUT in order draws less than the threshold, any other reading is a
\* deviation).  The response (list or None) never equals the string "OK",
\* so a send that returns reports FAIL; connect, measure, send and the
\* __exit__ disconnect may raise.
test_step_send_current_result(threshold_ua) ==
    HandlerDef("step_send_current_result",
        { Outcome(<<SendCurrentError>>, FALSE, 1),
          Power(Outcome(<<PPK2Info, SendCurrentError>>, FALSE, 1), "off") }
        \cup
        UNION {
          LET c == IF a < threshold_ua \/ threshold_ua = NoThreshold
                     THEN 0 ELSE 1
          IN
          { Reading(Power(Outcome(<<PPK2Info, SendCurrentFail>>, FALSE, c), "off"),
                    <<CurrentReading(a), SentCurrent(a)>>),
            Reading(Power(Outcome(<<PPK2Info, SendCurrentError>>, FALSE, c + 1),
                          "off"),
                    <<CurrentReading(a)>>),
            Reading(Power(Outcome(<<PPK2Info, SendCurrentFail, SendCurrentError>>,
                                  FALSE, c + 1), "on"),
                    <<CurrentReading(a), SentCurrent(a)>>) }
          : a \in SleepReadings(threshold_ua) })

\* _test_step_get_barcode: two queries in one try block; the first passes
\* on a response of more than five lines, the second on a non-empty one.
BarcodePass(i) ==
    IF i = 1 THEN Rep("Numero de serie leido", "PASS", "None", {})
             ELSE Rep("Codigo de barras leido", "PASS", "None", {})

BarcodeFail(i) ==
    IF i = 1 THEN Rep("Fallo al leer el numero de serie o respuesta invalida.",
                      "FAIL", "None", {})
             ELSE Rep("Fallo al leer el codigo de barras o respuesta invalida.",
                      "FAIL", "None", {})

test_step_get_barcode ==
    HandlerDef("step_get_barcode",
        SubcheckOutcomes([i \in 1..2 |-> BarcodePass(i)],
                         [i \in 1..2 |-> BarcodeFail(i)],
                         Rep("Error al obtener S/N y codigo de barras", "FAIL",
                             "None", {})))

\* _test_step_modem_send: the response never equals the string "OK".
test_step_modem_send ==
    HandlerDef("step_modem_send",
        { Outcome(<<Rep("Fallo al enviar Modem JSON -> FAIL", "FAIL", "None", {})>>, FALSE, 0),
          Outcome(<<Rep("Error al forzar envio de Modem JSON", "FAIL", "None", {})>>,
                  FALSE, 1) })

\* getattr(self, method_name) followed by method_to_call(*args, **kwargs)
Handler(step_info) ==
    CASE step_info.key = "test_step_connect_battery"       -> test_step_connect_battery
      [] step_info.key = "test_step_apply_vin"             -> test_step_apply_vin
      [] step_info.key = "test_step_check_initial_status"  -> test_step_check_initial_status
      [] step_info.key = "test_step_measure_active_power"  -> test_step_measure_active_power
      [] step_info.key = "test_step_test_tampers"          -> test_step_test_tampers
      [] step_info.key = "test_step_test_onboard_relay"    -> test_step_test_onboard_relay
      [] step_info.key = "test_step_disconnect_battery"    -> test_step_disconnect_battery
      [] step_info.key = "test_step_simulate_battery"      -> test_step_simulate_battery
      [] step_info.key = "test_step_disconnect_vin"        -> test_step_disconnect_vin
      [] step_info.key = "test_step_check_board_status"    ->
            test_step_check_board_status(step_info.args[1])
      [] step_info.key = "test_step_set_low_power_mode"    -> test_step_set_low_power_mode
      [] step_info.key = "test_step_measure_sleep_current" ->
            test_step_measure_sleep_current(threshold_sleep_current_ua)
      [] step_info.key = "test_step_wakeup_from_sleep"     -> test_step_wakeup_from_sleep
      [] step_info.key = "test_step_send_current_result"   ->
            test_step_send_current_result(threshold_sleep_current_ua)
      [] step_info.key = "test_step_get_barcode"           -> test_step_get_barcode
      [] step_info.key = "test_step_modem_send"            -> test_step_modem_send

\* ------------------------------------------------------------ observations
Devices == {"relay", "rs485", "ppk2", "ina3221"}

\* What the properties observe of a run: the devices whose connect()
\* returned, the devices whose disconnect() was invoked by the teardown,
\* the number of finalize() calls, the dispatched sequence indices, where an
\* exception was raised, the status announced by the summary, the length of
\* the steps list when finalize() was called, the step in flight when the
\* operator set the stop flag (0: none), whether the last descriptor of the
\* sequence had been dispatched by then, the number of records in the local
\* log file (-1: no file), the document written to the local log file and
\* the payload handed to requests.post (each << >> while there is none),
\* for each handler entered its step counter, its key and the values it
\* read from the devices, the calls made on a RelayController (SpecRelay),
\* the number of calls made on an RS485Controller and the latest of them
\* (SpecSerial), the number of runs the runner has completed before this
\* one and what the last of them left behind (SpecRerun), and the phases
\* completed.
NoHist ==
    [connected |-> {}, disconnect_invoked |-> {}, finalize_calls |-> 0,
     dispatched |-> << >>, connect_exc |-> "none", step_exc |-> 0,
     disconnect_exc |-> "none", loop_end |-> "none", summary |-> "none",
     steps_at_finalize |-> 0, stop_in_flight |-> 0, stop_late |-> FALSE,
     persisted |-> -1,
     local_file |-> << >>, api_payload |-> << >>, observed |-> << >>,
     relay_calls |-> << >>, serial_calls |-> 0, serial_call |-> << >>,
     runs |-> 0, previous |-> << >>,
     phases |-> << >>]

\* The relay board as the station finds it: plugged in, no command
\* received yet.
NoBoard == [present |-> TRUE, commands |-> << >>]

\* self.relay_controller = None etc. (TestRunner.__init__)
NoRelay == [obj |-> FALSE, relay_device |-> FALSE]
NoRS485 == [obj |-> FALSE, serial_conn |-> "None"]
NoPPK2  == [obj |-> FALSE, ppk2_api |-> FALSE]
NoINA   == [obj |-> FALSE, channels |-> 0]

\* config.stop_on_fail, the stop-on-fail flag of the configuration surface
\* (read by _run_test_steps; ConfigManager defines no such property).
ConfigStopOnFail == BOOLEAN

\* State after TestRunner(config_manager, gui_callback, stop_event); the
\* operator has cleared the stop flag (start_test_thread).
InitRunner ==
    /\ pc = "idle"
    /\ idx = 1
    /\ step_counter = 0
    /\ test_result = NoTestResult
    /\ ui = << >>
    /\ callback \in BOOLEAN
    /\ stop_event = FALSE
    /\ stop_on_fail \in ConfigStopOnFail
    /\ relay_controller = NoRelay
    /\ rs485_controller = NoRS485
    /\ ppk2_meter = NoPPK2
    /\ ina3221_meter = NoINA
    /\ clock = 0
    /\ faults = 0
    /\ exc = "none"
    /\ returned = "running"
    /\ hist = NoHist
    /\ reporting = NoReport
    /\ relay_board = NoBoard
    /\ response_lines = << >>
    /\ line_bytes = << >>
    /\ dut_power = FALSE

\* The runner of the shipped program: from .sequence_definition import
\* TEST_SEQUENCE.
Init ==
    /\ InitRunner
    /\ sequence = TEST_SEQUENCE
    /\ threshold_sleep_current_ua = MaxUa

Reporter == [tr |-> test_result, ui |-> ui]

\* Apply _report calls rs at the current step counter.
DoReports(rs) ==
    LET s == report_all(Reporter, callback, step_counter, rs)
    IN  /\ test_result' = s.tr
        /\ ui' = s.ui

Phase(p) == [hist EXCEPT !.phases = Append(@, p)]

\* ------------------------------------------------------------ run_full_test
\* The reset written so that it only fills in what is missing: a runner
\* that already has a result keeps it, and its counter.
run_full_test_reset_lazy(tr, counter, now) ==
    IF tr.obj THEN [test_result |-> tr, step_counter |-> counter]
              ELSE [test_result |-> NewTestResult(now), step_counter |-> 0]

\* run_full_test lines 69-70: self.step_counter = 0 and self.test_result =
\* TestResult(station_id=...), whatever the runner held before.
run_full_test_reset(tr, counter, now) ==
    [test_result |-> NewTestResult(now), step_counter |-> 0]

\* run_full_test lines 69-70: reset the counter, create the result.
RunStart ==
    /\ pc = "idle"
    /\ step_counter' = run_full_test_reset(test_result, step_counter, clock).step_counter
    /\ test_result' = run_full_test_reset(test_result, step_counter, clock).test_result
    /\ pc' = "connect"
    /\ UNCHANGED << idx, ui, callback, stop_event, stop_on_fail, sequence,
                    threshold_sleep_current_ua, response_lines, line_bytes,
                    dut_power,
                    relay_board,
                    reporting,
                    relay_controller, rs485_controller, ppk2_meter,
                    ina3221_meter, clock, faults, exc, returned, hist >>

\* The points at which _connect_all_hardware can raise.
ConnectFailures ==
    { "relay_find",      \* find() returns None or raises
      "relay_all_off",   \* set_state raises inside connect's all_off
      "rs485_port",      \* RS485Controller(port=None/"") raises ValueError
      "rs485_open",      \* serial.Serial raises
      "ppk2_find",       \* no port found, or PPK2_API() raises
      "ppk2_modifiers",  \* get_modifiers raises, ppk2_api already set
      "ina_config",      \* PowerMeterINA3221(**cfg) raises TypeError
      "ina_configure" }  \* INA219()/configure raises

ConnectOrder ==
    << "relay_find", "relay_all_off", "rs485_port", "rs485_open", "ppk2_find",
       "ppk2_modifiers", "ina_config", "ina_configure" >>

\* Position of a failure point in _connect_all_hardware; "none" is past the end.
ConnectPos(f) ==
    IF f = "none" THEN Len(ConnectOrder) + 1
    ELSE CHOOSE i \in 1..Len(ConnectOrder) : ConnectOrder[i] = f

\* The device a failure point belongs to.
ConnectDevice(f) ==
    CASE f \in {"relay_find", "relay_all_off"} -> "relay"
      [] f \in {"rs485_port", "rs485_open"}    -> "rs485"
      [] f \in {"ppk2_find", "ppk2_modifiers"} -> "ppk2"
      [] f \in {"ina_config", "ina_configure"} -> "ina3221"
      [] OTHER -> "none"

\* _connect_all_hardware: header report, then relay, RS485, PPK2, INA3221 in
\* this order; the first connect that raises ends the method.
connect_all_hardware(f) ==
    LET p == ConnectPos(f) IN
    /\ DoReports(<<Rep("--- Conectando al hardware ---", "HEADER",
                       "connect_hardware", {})>>)
    /\ relay_controller' =
         [obj |-> TRUE, relay_device |-> p > ConnectPos("relay_find")]
    /\ rs485_controller' =
         IF p > ConnectPos("rs485_port")
           THEN [obj |-> TRUE,
                 serial_conn |-> IF p > ConnectPos("rs485_open")
                                   THEN "open" ELSE "None"]
           ELSE rs485_controller
    /\ ppk2_meter' =
         IF p > ConnectPos("rs485_open")
           THEN [obj |-> TRUE, ppk2_api |-> p > ConnectPos("ppk2_find")]
           ELSE ppk2_meter
    /\ ina3221_meter' =
         IF p > ConnectPos("ina_config")
           THEN [obj |-> TRUE,
                 channels |-> IF p > ConnectPos("ina_configure") THEN 3 ELSE 0]
           ELSE ina3221_meter
    /\ hist' = [hist EXCEPT
                  !.connected = { d \in Devices :
                                    \A h \in ConnectFailures :
                                       ConnectDevice(h) = d => ConnectPos(h) < p },
                  !.connect_exc = ConnectDevice(f),
                  !.phases = Append(@, "connect")]

\* run_full_test line 73
ConnectAll ==
    /\ pc = "connect"
    /\ \E f \in ConnectFailures \cup {"none"} :
          /\ f # "none" => faults < MaxFaults
          /\ faults' = IF f = "none" THEN faults ELSE faults + 1
          /\ connect_all_hardware(f)
          /\ exc' = IF f = "none" THEN "none" ELSE "connect"
          /\ pc' = IF f = "none" THEN "steps" ELSE "except"
    /\ UNCHANGED << idx, step_counter, callback, stop_event, stop_on_fail,
                    sequence,
                    threshold_sleep_current_ua, response_lines, line_bytes,
                    dut_power,
                    relay_board, reporting,
                    clock, returned >>

\* _run_test_steps line 127: the header report before the loop.
BeginSteps ==
    /\ pc = "steps"
    /\ DoReports(<<Rep("--- Iniciando secuencia de pruebas ---", "HEADER",
                       "None", {})>>)
    /\ idx' = 1
    /\ pc' = "loop"
    /\ hist' = Phase("steps")
    /\ UNCHANGED << step_counter, callback, stop_event, stop_on_fail,
                    sequence,
                    threshold_sleep_current_ua, response_lines, line_bytes,
                    dut_power,
                    relay_board, reporting,
                    relay_controller, rs485_controller, ppk2_meter,
                    ina3221_meter, clock, faults, exc, returned >>

\* The stop flag is never looked at.
stop_requested_never(ev) == FALSE

\* line 130: self.stop_event and self.stop_event.is_set()
stop_requested(ev) == ev

\* The cancellation record with a status that does not fail the run.
user_stop_report_info ==
    Rep("Test detenido por el usuario.", "INFO", "None", {})

\* line 131: the record of a cancellation
user_stop_report ==
    Rep("Test detenido por el usuario.", "FAIL", "None", {})

\* line 144: the record of a key that resolves to no method
missing_method_report ==
    Rep("Error: No se encontro el metodo", "FAIL", "None", {})

\* _run_test_steps lines 129-145, one loop iteration up to the call: the
\* stop flag check, then the handler lookup.
LoopHead ==
    /\ pc = "loop"
    /\ IF stop_requested(stop_event)
         THEN /\ DoReports(<<user_stop_report>>)
              /\ pc' = "finalize"
              /\ hist' = [hist EXCEPT !.loop_end = "stopped"]
         ELSE IF MethodName(sequence[idx].key) \notin TestRunnerMethods
         THEN /\ DoReports(<<missing_method_report>>)
              /\ pc' = "finalize"
              /\ hist' = [hist EXCEPT !.loop_end = "missing"]
         ELSE /\ pc' = "call"
              /\ hist' = [hist EXCEPT !.dispatched = Append(@, idx)]
              /\ UNCHANGED << test_result, ui >>
    /\ UNCHANGED << idx, step_counter, callback, stop_event, stop_on_fail,
                    sequence,
                    threshold_sleep_current_ua, response_lines, line_bytes,
                    dut_power,
                    relay_board, reporting, relay_controller, rs485_controller,
                    ppk2_meter,
                    ina3221_meter, clock, faults, exc, returned >>

\* _start_step without the TESTING report.
start_step_silent(step_key) == << >>

\* _start_step: the TESTING report, made after the counter was incremented;
\* the message is the ui_messages template of step_key.
start_step(step_key) ==
    << Rep(step_key, "TESTING", MethodName(step_key), {}) >>

\* Number of positional parameters (besides self) of the handler of a key.
HandlerParams(step_key) ==
    IF step_key = "test_step_check_board_status" THEN 1 ELSE 0

\* The sequence stops at any FAIL, whatever the configuration says.
stop_on_fail_always(status, flag) == status = "FAIL"

\* line 150: self.test_result.overall_status == "FAIL" and
\* self.config.stop_on_fail
stop_on_fail_reached(status, flag) == status = "FAIL" /\ flag

\* line 151: the record of a sequence halted by stop-on-fail
stop_on_fail_report ==
    Rep("La secuencia se detuvo debido a un fallo.", "INFO", "None", {})

\* A loop that comes round to the stop check once more after the last
\* descriptor when the flag is set.
loop_exhausted_unless_stopped(i, seq) == i = Len(seq) /\ ~stop_event

\* line 129, for step_info in TEST_SEQUENCE: after the body has run for
\* the last descriptor the loop is over, without another look at the flag.
loop_exhausted(i, seq) == i = Len(seq)

\* The outcomes of method_to_call(*args, **kwargs): those of the handler,
\* or a TypeError raised by the call itself when the arguments do not match
\* the handler's parameters (started tells whether _start_step ran).
CallOutcomes(step_info) ==
    IF Len(step_info.args) = HandlerParams(step_info.key)
      THEN { [started |-> TRUE,
              reports |-> start_step(Handler(step_info).start_key) \o o.reports,
              escaped |-> o.escaped, cost |-> o.cost,
              readings |-> o.readings, power |-> o.power]
             : o \in Handler(step_info).outcomes }
      ELSE { [started |-> FALSE, reports |-> << >>, escaped |-> TRUE,
              cost |-> 0, readings |-> << >>, power |-> "same"] }

\* _run_test_steps lines 148-152: the handler call (its _start_step and its
\* reports), then the stop-on-fail check.
CallHandler ==
    /\ pc = "call"
    /\ \E o \in CallOutcomes(sequence[idx]) :
          /\ faults + o.cost <= MaxFaults
          /\ faults' = faults + o.cost
          /\ dut_power' = IF o.power = "same" THEN dut_power ELSE o.power = "on"
          /\ LET counter == IF o.started THEN step_counter + 1 ELSE step_counter
                 last == loop_exhausted(idx, sequence)
                 s == report_all(Reporter, callback, counter, o.reports)
                 stop == /\ ~o.escaped
                         /\ stop_on_fail_reached(s.tr.overall_status, stop_on_fail)
                 t == IF stop
                        THEN report(s, callback, counter, stop_on_fail_report)
                        ELSE s
             IN  /\ step_counter' = counter
                 /\ test_result' = t.tr
                 /\ ui' = t.ui
                 /\ exc' = IF o.escaped THEN "step" ELSE "none"
                 /\ pc' = IF o.escaped THEN "except"
                          ELSE IF stop \/ last THEN "finalize"
                          ELSE "loop"
                 /\ idx' = IF o.escaped \/ stop \/ last THEN idx ELSE idx + 1
                 /\ hist' = [hist EXCEPT
                               !.observed =
                                   IF o.started
                                     THEN Append(@, [counter |-> counter,
                                                     key |-> sequence[idx].key,
                                                     readings |-> o.readings])
                                     ELSE @,
                               !.step_exc = IF o.escaped THEN idx ELSE @,
                               !.loop_end = IF o.escaped THEN "exception"
                                            ELSE IF stop THEN "stop_on_fail"
                                            ELSE IF last THEN "exhausted" ELSE @]
    /\ UNCHANGED << callback, stop_event, stop_on_fail, sequence,
                    threshold_sleep_current_ua, response_lines, line_bytes,
                    relay_board, reporting,
                    relay_controller, rs485_controller, ppk2_meter,
                    ina3221_meter, clock, returned >>

\* run_full_test lines 75-76: the except clause.
Except ==
    /\ pc = "except"
    /\ DoReports(<<Rep("ERROR CRITICO", "FAIL", "critical_error", {})>>)
    /\ exc' = "none"
    /\ pc' = "finalize"
    /\ hist' = Phase("except")
    /\ UNCHANGED << idx, step_counter, callback, stop_event, stop_on_fail,
                    sequence,
                    threshold_sleep_current_ua, response_lines, line_bytes,
                    dut_power,
                    relay_board, reporting,
                    relay_controller, rs485_controller, ppk2_meter,
                    ina3221_meter, clock, faults, returned >>

\* run_full_test line 78: self.test_result.finalize(); the clock has not
\* gone back since the result was created.
Finalize ==
    /\ pc = "finalize"
    /\ \E d \in 0..1 :
          /\ clock' = clock + d
          /\ test_result' = finalize(test_result, clock + d)
    /\ pc' = "disconnect"
    /\ hist' = [hist EXCEPT !.finalize_calls = @ + 1,
                            !.steps_at_finalize = Len(test_result.steps),
                            !.phases = Append(@, "finalize")]
    /\ UNCHANGED << idx, step_counter, ui, callback, stop_event,
                    stop_on_fail, sequence,
                    threshold_sleep_current_ua, response_lines, line_bytes,
                    dut_power,
                    relay_board, reporting,
                    relay_controller, rs485_controller, ppk2_meter,
                    ina3221_meter, faults, exc, returned >>

\* The disconnect() calls of the teardown that can raise: the relay board's
\* all_off (set_state), the PPK2's stop_measuring / toggle_DUT_power.
DisconnectFailures == {"relay", "ppk2"}

\* _disconnect_all_hardware: the header report, then disconnect() on each
\* handle that is not None, in the order relay, RS485, PPK2, INA3221; an
\* exception of one disconnect() ends the method.  The PPK2's disconnect()
\* switches the source output off when it holds the API object.
disconnect_all_hardware(f) ==
    LET relayReached == relay_controller.obj
        rs485Reached == rs485_controller.obj /\ f # "relay"
        ppk2Reached  == ppk2_meter.obj /\ f # "relay"
        inaReached   == ina3221_meter.obj /\ f \notin {"relay", "ppk2"}
    IN
    /\ DoReports(<<Rep("--- Desconectando del hardware ---", "HEADER",
                       "disconnect_hardware", {})>>)
    /\ relay_controller' =
         IF relayReached /\ f # "relay"
           THEN [relay_controller EXCEPT !.relay_device = FALSE]
           ELSE relay_controller
    /\ rs485_controller' =
         IF rs485Reached /\ rs485_controller.serial_conn = "open"
           THEN [rs485_controller EXCEPT !.serial_conn = "closed"]
           ELSE rs485_controller
    /\ ppk2_meter' =
         IF ppk2Reached /\ f # "ppk2"
           THEN [ppk2_meter EXCEPT !.ppk2_api = FALSE]
           ELSE ppk2_meter
    /\ UNCHANGED ina3221_meter
    /\ dut_power' =
         IF ppk2Reached /\ f # "ppk2" /\ ppk2_meter.ppk2_api
           THEN FALSE
           ELSE dut_power
    /\ hist' = [hist EXCEPT
                  !.disconnect_invoked =
                      {d \in Devices :
                          \/ d = "relay" /\ relayReached
                          \/ d = "rs485" /\ rs485Reached
                          \/ d = "ppk2" /\ ppk2Reached
                          \/ d = "ina3221" /\ inaReached},
                  !.disconnect_exc = f,
                  !.phases = IF f = "none" THEN Append(@, "disconnect") ELSE @]

\* run_full_test line 79, inside the finally block: an exception raised
\* here leaves run_full_test.
DisconnectAll ==
    /\ pc = "disconnect"
    /\ \E f \in DisconnectFailures \cup {"none"} :
          /\ f = "relay" => relay_controller.obj /\ relay_controller.relay_device
          /\ f = "ppk2" => ppk2_meter.obj /\ ppk2_meter.ppk2_api
          /\ LET cost == IF f = "none" \/ hist.connect_exc = f THEN 0 ELSE 1
             IN  /\ faults + cost <= MaxFaults
                 /\ faults' = faults + cost
          /\ disconnect_all_hardware(f)
          /\ exc' = IF f = "none" THEN "none" ELSE "disconnect"
          /\ pc' = IF f = "none" THEN "summary" ELSE "raised"
          /\ returned' = IF f = "none" THEN returned ELSE "raised"
    /\ UNCHANGED << idx, step_counter, callback, stop_event, stop_on_fail,
                    sequence,
                    threshold_sleep_current_ua, response_lines, line_bytes,
                    relay_board, reporting, clock >>

\* run_full_test line 80: the final summary report.
Summary ==
    /\ pc = "summary"
    /\ DoReports(<<Rep("Test finalizado. Resultado", test_result.overall_status,
                       "final_summary", {})>>)
    /\ pc' = "local_log"
    /\ hist' = [hist EXCEPT !.summary = test_result.overall_status,
                            !.phases = Append(@, "summary")]
    /\ UNCHANGED << idx, step_counter, callback, stop_event, stop_on_fail,
                    sequence,
                    threshold_sleep_current_ua, response_lines, line_bytes,
                    dut_power,
                    relay_board, reporting,
                    relay_controller, rs485_controller, ppk2_meter,
                    ina3221_meter, clock, faults, exc, returned >>

\* _log_result_locally: no log directory configured, the file written, or
\* an exception while writing; each ends in one report.
log_result_locally(log) ==
    CASE log = "unset" ->
           Rep("Ruta de logs no configurada. No se guardara el resultado local.",
               "FAIL", "local_log", {})
      [] log = "written" ->
           Rep("Resultado guardado localmente", "INFO", "local_log", {})
      [] log = "error" ->
           Rep("Error al guardar el log local", "FAIL", "local_log", {})

\* run_full_test line 82
LogLocal ==
    /\ pc = "local_log"
    /\ \E log \in {"unset", "written", "error"} :
          /\ DoReports(<<log_result_locally(log)>>)
          /\ hist' = [hist EXCEPT
                        !.persisted = IF log = "written"
                                        THEN Len(test_result.steps) ELSE @,
                        !.local_file = IF log = "written"
                                         THEN <<to_dict(test_result)>> ELSE @,
                        !.phases = Append(@, "local_log")]
    /\ pc' = "api"
    /\ UNCHANGED << idx, step_counter, callback, stop_event, stop_on_fail,
                    sequence,
                    threshold_sleep_current_ua, response_lines, line_bytes,
                    dut_power,
                    relay_board, reporting,
                    relay_controller, rs485_controller, ppk2_meter,
                    ina3221_meter, clock, faults, exc, returned >>

\* What ApiClient.send_test_result meets on a station whose configuration
\* has an api section (the client is built from it): a response without
\* error status, or a RequestException.
ApiOutcomes == {"ok", "error"}

\* ApiClient.send_test_result: without an endpoint it returns False before
\* any payload exists; otherwise payload = test_result.to_dict() is handed
\* to requests.post, and the result is True unless the request raised.
send_test_result(tr, api) ==
    [payload |-> IF api = "no_endpoint" THEN << >> ELSE <<to_dict(tr)>>,
     success |-> api = "ok"]

\* _send_results_to_api: send_test_result returns True or False.
send_results_to_api(success) ==
    IF success
      THEN Rep("Resultados sincronizados con la plataforma.", "INFO", "api_send", {})
      ELSE Rep("Fallo al sincronizar resultados con la plataforma.", "FAIL",
               "api_send", {})

\* run_full_test line 83
SendApi ==
    /\ pc = "api"
    /\ \E api \in ApiOutcomes :
          LET sent == send_test_result(test_result, api)
          IN  /\ DoReports(<<send_results_to_api(sent.success)>>)
              /\ hist' = [hist EXCEPT !.api_payload = sent.payload,
                                      !.phases = Append(@, "api")]
    /\ pc' = "return"
    /\ UNCHANGED << idx, step_counter, callback, stop_event, stop_on_fail,
                    sequence,
                    threshold_sleep_current_ua, response_lines, line_bytes,
                    dut_power,
                    relay_board, reporting,
                    relay_controller, rs485_controller, ppk2_meter,
                    ina3221_meter, clock, faults, exc, returned >>

\* run_full_test line 85: return self.test_result.overall_status
Return ==
    /\ pc = "return"
    /\ returned' = test_result.overall_status
    /\ pc' = "done"
    /\ UNCHANGED << idx, step_counter, test_result, ui, callback, stop_event,
                    stop_on_fail, sequence,
                    threshold_sleep_current_ua, response_lines, line_bytes,
                    dut_power,
                    relay_board, reporting, relay_controller,
                    rs485_controller,
                    ppk2_meter, ina3221_meter, clock, faults, exc, hist >>

\* MainWindow.stop_test on the operator thread: stop_event.set() while a
\* test is running.
StopTest ==
    /\ pc \notin {"idle", "done", "raised"}
    /\ ~stop_event
    /\ stop_event' = TRUE
    /\ hist' = [hist EXCEPT
                  !.stop_in_flight = IF pc = "call" THEN idx ELSE 0,
                  !.stop_late =
                      /\ hist.dispatched # << >>
                      /\ hist.dispatched[Len(hist.dispatched)] = Len(sequence)]
    /\ UNCHANGED << pc, idx, step_counter, test_result, ui, callback,
                    stop_on_fail, sequence,
                    threshold_sleep_current_ua, response_lines, line_bytes,
                    dut_power,
                    relay_board, reporting, relay_controller,
                    rs485_controller,
                    ppk2_meter, ina3221_meter, clock, faults, exc, returned >>

Next ==
    \/ RunStart
    \/ ConnectAll
    \/ BeginSteps
    \/ LoopHead
    \/ CallHandler
    \/ Except
    \/ Finalize
    \/ DisconnectAll
    \/ Summary
    \/ LogLocal
    \/ SendApi
    \/ Return
    \/ StopTest

Spec == Init /\ [][Next]_vars

\* ------------------------------------------ the runner on other sequences
\* Longest sequence program of SpecSequence.
MaxSeqLen == 2

\* A descriptor whose key names no method of TestRunner.
UnresolvedStep == [key |-> "test_step_undefined", args |-> << >>]

\* Scenario A: connect_battery, apply_vin, measure_active_power.
ScenarioA == << TEST_SEQUENCE[1], TEST_SEQUENCE[2], TEST_SEQUENCE[4] >>

\* Sequence programs: the first 1..MaxSeqLen descriptors of TEST_SEQUENCE,
\* with at most one of them replaced by a descriptor that resolves to no
\* handler, and Scenario A.
SequencePrograms ==
    UNION { { SubSeq(TEST_SEQUENCE, 1, n) } \cup
            { [SubSeq(TEST_SEQUENCE, 1, n) EXCEPT ![k] = UnresolvedStep]
              : k \in 1..n }
            : n \in 1..MaxSeqLen }
    \cup { ScenarioA }

\* The runner with TEST_SEQUENCE bound to one of these programs.
InitSequence ==
    /\ InitRunner
    /\ sequence \in SequencePrograms
    /\ threshold_sleep_current_ua = MaxUa

SpecSequence == InitSequence /\ [][Next]_vars

\* ------------------------------------- the sleep-current step on its own
\* The runner with the sleep-current step as its whole sequence, under each
\* configuration of the threshold.
InitSleep ==
    /\ InitRunner
    /\ sequence = << [key |-> "test_step_measure_sleep_current",
                      args |-> << >>] >>
    /\ threshold_sleep_current_ua \in Thresholds

SpecSleep == InitSleep /\ [][Next]_vars

\* ------------------------------------------ one runner, several runs
\* Number of run_full_test invocations on one TestRunner.
MaxRuns == 2

\* What a run that has ended leaves in the runner: the status and the
\* number of records of its result, its end time and its step counter.
Leftover ==
    [overall_status |-> test_result.overall_status,
     steps |-> Len(test_result.steps), end_time |-> test_result.end_time,
     step_counter |-> step_counter]

\* MainWindow.start_test_thread once a run has ended (it returned, or an
\* exception of the teardown left it): the stop flag and the log view are
\* cleared and run_full_test is invoked again, here on the same TestRunner.
RunAgain ==
    /\ pc \in {"done", "raised"}
    /\ hist.runs + 1 < MaxRuns
    /\ pc' = "idle"
    /\ stop_event' = FALSE
    /\ ui' = << >>
    /\ exc' = "none"
    /\ returned' = "running"
    /\ hist' = [NoHist EXCEPT !.runs = hist.runs + 1,
                              !.previous = <<Leftover>>]
    /\ UNCHANGED << idx, step_counter, test_result, callback, stop_on_fail,
                    sequence, threshold_sleep_current_ua, response_lines,
                    line_bytes, dut_power, relay_board, reporting,
                    relay_controller, rs485_controller, ppk2_meter,
                    ina3221_meter, clock, faults >>

NextRerun ==
    \/ Next
    \/ RunAgain

\* The runner with TEST_SEQUENCE bound to one of its first 1..MaxSeqLen
\* descriptors.
InitRerun ==
    /\ InitRunner
    /\ sequence \in { SubSeq(TEST_SEQUENCE, 1, n) : n \in 1..MaxSeqLen }
    /\ threshold_sleep_current_ua = MaxUa

\* That runner, run again when a run has ended.
SpecRerun == InitRerun /\ [][NextRerun]_vars

\* --------------------------------------------- _report, statement by statement
\* Number of _report calls of SpecReport.
MaxReports == 3

\* A run in progress (the result exists), no _report call under way.
InitReport ==
    /\ pc = "report_idle"
    /\ idx = 1
    /\ step_counter = 0
    /\ test_result = NewTestResult(0)
    /\ ui = << >>
    /\ callback \in BOOLEAN
    /\ stop_event = FALSE
    /\ stop_on_fail = FALSE
    /\ sequence = TEST_SEQUENCE
    /\ threshold_sleep_current_ua = MaxUa
    /\ relay_board = NoBoard
    /\ response_lines = << >>
    /\ line_bytes = << >>
    /\ dut_power = FALSE
    /\ reporting = NoReport
    /\ relay_controller = NoRelay
    /\ rs485_controller = NoRS485
    /\ ppk2_meter = NoPPK2
    /\ ina3221_meter = NoINA
    /\ clock = 0
    /\ faults = 0
    /\ exc = "none"
    /\ returned = "running"
    /\ hist = NoHist

ReportFrame ==
    UNCHANGED << idx, step_counter, callback, stop_event, stop_on_fail,
                 sequence,
                 threshold_sleep_current_ua, response_lines, line_bytes,
                    dut_power,
                    relay_board, relay_controller, rs485_controller, ppk2_meter,
                 ina3221_meter, clock, faults, exc, returned, hist >>

\* self._report(message, status) is called with some status.
ReportCall ==
    /\ pc = "report_idle"
    /\ Len(ui) < MaxReports
    /\ Len(test_result.steps) < MaxReports
    /\ \E status \in Statuses :
          reporting' = Rep("message", status, "None", {})
    /\ pc' = "report_callback"
    /\ UNCHANGED << test_result, ui >>
    /\ ReportFrame

\* _report lines 45-46: the callback is invoked (if set); it returns, or it
\* raises after the event reached the UI and the exception leaves _report.
ReportCallback ==
    /\ pc = "report_callback"
    /\ ui' = report_callback(Reporter, callback, reporting).ui
    /\ \/ /\ pc' = "report_add_step"
          /\ UNCHANGED reporting
       \/ /\ callback
          /\ pc' = "report_idle"
          /\ reporting' = NoReport
    /\ UNCHANGED test_result
    /\ ReportFrame

\* _report lines 48-55: the record is appended.
ReportAddStep ==
    /\ pc = "report_add_step"
    /\ test_result' = report_add_step(Reporter, step_counter, reporting).tr
    /\ pc' = "report_idle"
    /\ reporting' = NoReport
    /\ UNCHANGED ui
    /\ ReportFrame

NextReport ==
    \/ ReportCall
    \/ ReportCallback
    \/ ReportAddStep

SpecReport == InitReport /\ [][NextReport]_vars

\* ------------------------------------------------- the result object alone
\* A TestResult just constructed, outside any run.
InitResult ==
    /\ pc = "object"
    /\ idx = 1
    /\ step_counter = 0
    /\ test_result = NewTestResult(0)
    /\ ui = << >>
    /\ callback = FALSE
    /\ stop_event = FALSE
    /\ stop_on_fail = FALSE
    /\ sequence = TEST_SEQUENCE
    /\ threshold_sleep_current_ua = MaxUa
    /\ relay_board = NoBoard
    /\ response_lines = << >>
    /\ line_bytes = << >>
    /\ dut_power = FALSE
    /\ reporting = NoReport
    /\ relay_controller = NoRelay
    /\ rs485_controller = NoRS485
    /\ ppk2_meter = NoPPK2
    /\ ina3221_meter = NoINA
    /\ clock = 0
    /\ faults = 0
    /\ exc = "none"
    /\ returned = "running"
    /\ hist = NoHist

ResultFrame ==
    UNCHANGED << pc, idx, step_counter, ui, callback, stop_event,
                 stop_on_fail, sequence,
                 threshold_sleep_current_ua, response_lines, line_bytes,
                    dut_power,
                    relay_board, reporting,
                 relay_controller, rs485_controller, ppk2_meter,
                 ina3221_meter, faults, exc, returned >>

\* result.add_step(TestStepResult(...)) with any status
CallAddStep ==
    /\ pc = "object"
    /\ Len(test_result.steps) < MaxSteps
    /\ \E status \in Statuses :
          test_result' = add_step(test_result,
                                  TestStepResult(Len(test_result.steps) + 1,
                                                 status, "message", {}))
    /\ UNCHANGED << clock, hist >>
    /\ ResultFrame

\* result.finalize()
CallFinalize ==
    /\ pc = "object"
    /\ hist.finalize_calls < MaxFinalize
    /\ test_result' = finalize(test_result, clock)
    /\ hist' = [hist EXCEPT !.finalize_calls = @ + 1,
                            !.steps_at_finalize = Len(test_result.steps)]
    /\ UNCHANGED clock
    /\ ResultFrame

\* the wall clock advances
Tick ==
    /\ pc = "object"
    /\ clock < MaxClock
    /\ clock' = clock + 1
    /\ UNCHANGED << test_result, hist >>
    /\ ResultFrame

NextResult ==
    \/ CallAddStep
    \/ CallFinalize
    \/ Tick

SpecResult == InitResult /\ [][NextResult]_vars

\* -------------------------------------------- the RelayController alone
\* RelayController(num_relays): relay_device = None.
NewRelayController(num_relays) ==
    [obj |-> TRUE, relay_device |-> FALSE, num_relays |-> num_relays]

\* pyhid_usb_relay.find(): the device handle, or None without a board.
find(board) == board.present

\* connect, lines 25-27, without the raise: a missing board goes unnoticed.
connect_find_silent(ctrl, found) ==
    [ctrl |-> [ctrl EXCEPT !.relay_device = found], raised |-> "none"]

\* connect, lines 25-27: relay_device = find(); None raises ConnectionError.
connect_find(ctrl, found) ==
    [ctrl |-> [ctrl EXCEPT !.relay_device = found],
     raised |-> IF found THEN "none" ELSE "ConnectionError"]

\* all_off with range(1, num_relays): the last relay is left alone.
all_off_short(ctrl) ==
    IF ctrl.relay_device
      THEN [i \in 1..(ctrl.num_relays - 1) |-> <<i, FALSE>>]
      ELSE << >>

\* all_off: the set_state(i, False) calls for i = 1..num_relays, none
\* without a device handle.
all_off(ctrl) ==
    IF ctrl.relay_device
      THEN [i \in 1..ctrl.num_relays |-> <<i, FALSE>>]
      ELSE << >>

\* set_relay, lines 53-61: ConnectionError without a device handle, then
\* ValueError for a number outside 1..num_relays, else the set_state call.
set_relay(ctrl, relay_num, state) ==
    IF ~ctrl.relay_device
      THEN [raised |-> "ConnectionError", commands |-> << >>]
    ELSE IF ~(1 <= relay_num /\ relay_num <= ctrl.num_relays)
      THEN [raised |-> "ValueError", commands |-> << >>]
    ELSE [raised |-> "none", commands |-> << <<relay_num, state>> >>]

\* One call on the controller as the properties see it: the method, its
\* arguments, whether the controller held a device handle and whether find()
\* saw a board when it was made, the exception it raised ("none": it
\* returned) and the set_state calls that reached the board.
RelayCall(op, relay_num, state, raised, sent) ==
    [op |-> op, relay_num |-> relay_num, state |-> state,
     connected |-> relay_controller.relay_device,
     present |-> relay_board.present, num_relays |-> relay_controller.num_relays,
     raised |-> raised, sent |-> sent]

\* A controller just constructed; the board is plugged in or not.
InitRelay ==
    /\ pc = "relay_object"
    /\ idx = 1
    /\ step_counter = 0
    /\ test_result = NoTestResult
    /\ ui = << >>
    /\ callback = FALSE
    /\ stop_event = FALSE
    /\ stop_on_fail = FALSE
    /\ sequence = TEST_SEQUENCE
    /\ threshold_sleep_current_ua = MaxUa
    /\ relay_board \in [present : BOOLEAN, commands : {<< >>}]
    /\ response_lines = << >>
    /\ line_bytes = << >>
    /\ dut_power = FALSE
    /\ reporting = NoReport
    /\ relay_controller \in { NewRelayController(n) : n \in 1..MaxRelays }
    /\ rs485_controller = NoRS485
    /\ ppk2_meter = NoPPK2
    /\ ina3221_meter = NoINA
    /\ clock = 0
    /\ faults = 0
    /\ exc = "none"
    /\ returned = "running"
    /\ hist = NoHist

RelayFrame ==
    UNCHANGED << pc, idx, step_counter, test_result, ui, callback, stop_event,
                 stop_on_fail, sequence, threshold_sleep_current_ua,
                 response_lines, line_bytes, dut_power,
                 reporting, rs485_controller, ppk2_meter, ina3221_meter,
                 clock, exc, returned >>

\* The set_state calls cmds are made in order on the board: all of them
\* reach it, or one raises (a board that was unplugged raises at the first,
\* a plugged board only by a fault) and the calls before it have reached it.
\* done is the number that reached the board.
BoardReceives(cmds, done) ==
    /\ done \in 0..Len(cmds)
    /\ (~relay_board.present /\ cmds # << >>) => done = 0
    /\ LET cost == IF done < Len(cmds) /\ relay_board.present THEN 1 ELSE 0
       IN  /\ faults + cost <= MaxFaults
           /\ faults' = faults + cost
    /\ relay_board' = [relay_board EXCEPT
                          !.commands = @ \o SubSeq(cmds, 1, done)]

\* controller.connect() (also __enter__)
RelayConnect ==
    /\ pc = "relay_object"
    /\ Len(hist.relay_calls) < MaxRelayCalls
    /\ LET found == connect_find(relay_controller, find(relay_board))
           cmds == all_off(found.ctrl)
       IN  \E done \in 0..Len(cmds) :
              /\ BoardReceives(cmds, done)
              /\ relay_controller' = found.ctrl
              /\ hist' = [hist EXCEPT !.relay_calls =
                            Append(@, RelayCall("connect", 0, FALSE,
                                IF found.raised # "none" THEN found.raised
                                ELSE IF done < Len(cmds) THEN "BoardError"
                                ELSE "none",
                                SubSeq(cmds, 1, done)))]
    /\ RelayFrame

\* controller.disconnect() (also __exit__): if self.relay_device: all_off(),
\* then relay_device = None; an exception of set_state leaves the handle.
RelayDisconnect ==
    /\ pc = "relay_object"
    /\ Len(hist.relay_calls) < MaxRelayCalls
    /\ LET cmds == all_off(relay_controller)
       IN  \E done \in 0..Len(cmds) :
              /\ BoardReceives(cmds, done)
              /\ relay_controller' =
                    IF done = Len(cmds)
                      THEN [relay_controller EXCEPT !.relay_device = FALSE]
                      ELSE relay_controller
              /\ hist' = [hist EXCEPT !.relay_calls =
                            Append(@, RelayCall("disconnect", 0, FALSE,
                                IF done < Len(cmds) THEN "BoardError" ELSE "none",
                                SubSeq(cmds, 1, done)))]
    /\ RelayFrame

\* controller.set_relay(relay_num, state) with any number around the range
RelaySet ==
    /\ pc = "relay_object"
    /\ Len(hist.relay_calls) < MaxRelayCalls
    /\ \E relay_num \in 0..(relay_controller.num_relays + 1), state \in BOOLEAN :
          LET call == set_relay(relay_controller, relay_num, state)
          IN  \E done \in 0..Len(call.commands) :
                 /\ BoardReceives(call.commands, done)
                 /\ hist' = [hist EXCEPT !.relay_calls =
                               Append(@, RelayCall("set_relay", relay_num, state,
                                   IF call.raised # "none" THEN call.raised
                                   ELSE IF done < Len(call.commands) THEN "BoardError"
                                   ELSE "none",
                                   SubSeq(call.commands, 1, done)))]
    /\ UNCHANGED relay_controller
    /\ RelayFrame

\* The board is plugged in or pulled out between two calls.
BoardPlug ==
    /\ pc = "relay_object"
    /\ relay_board' = [relay_board EXCEPT !.present = ~@]
    /\ UNCHANGED << relay_controller, faults, hist >>
    /\ RelayFrame

NextRelay ==
    \/ RelayConnect
    \/ RelayDisconnect
    \/ RelaySet
    \/ BoardPlug

SpecRelay == InitRelay /\ [][NextRelay]_vars

\* --------------------------------------------- the RS485Controller alone
\* SpecSerial: longest list of response lines, number of readline() results
\* of one call the observation keeps, number of calls on the controller.
MaxLines == 2
MaxRx == 3
MaxSerialCalls == 3

\* The characters str.strip() removes that occur on the line.
Whitespace == {" ", "\r", "\n"}

RECURSIVE lstrip(_)
lstrip(s) ==
    IF s # << >> /\ Head(s) \in Whitespace THEN lstrip(Tail(s)) ELSE s

RECURSIVE rstrip(_)
rstrip(s) ==
    IF s # << >> /\ s[Len(s)] \in Whitespace
      THEN rstrip(SubSeq(s, 1, Len(s) - 1))
      ELSE s

\* line_bytes.decode('utf-8', errors='ignore').strip(), on a line as its
\* sequence of characters
strip(s) == rstrip(lstrip(s))

\* line_str.startswith(prefix) for a one-character prefix
startswith(s, prefix) == s # << >> /\ Head(s) = prefix

\* serial_conn.readline() at the read timeout: b""
Timeout == << >>

\* Lines the DUT sends that do not end a response: two with text (one of
\* them holding a '#' past its first character) and an empty one.
TextLines == { <<"O", "K", "\r", "\n">>, <<"E", "#", "\n">> }
BlankLines == { <<"\r", "\n">> }

\* The prompt: on a line of its own, or after a blank, without a newline.
PromptLines == { <<"#", "\n">>, <<" ", "#", " ">> }

\* The loop body with the timeout taken for the end of the response: the
\* lines read so far are returned.
read_line_partial(lines, rx) ==
    IF rx = << >>
      THEN [next |-> "break", response_lines |-> lines]
    ELSE IF startswith(strip(rx), "#")
      THEN [next |-> "break", response_lines |-> lines]
    ELSE IF strip(rx) # << >>
      THEN [next |-> "loop", response_lines |-> Append(lines, strip(rx))]
    ELSE [next |-> "loop", response_lines |-> lines]

\* send_command lines 65-75, one pass of the loop on what readline()
\* returned: b"" returns None, a line that starts with '#' once stripped
\* leaves the loop, any other non-empty stripped line is appended.
read_line(lines, rx) ==
    IF rx = << >>
      THEN [next |-> "return_none", response_lines |-> lines]
    ELSE IF startswith(strip(rx), "#")
      THEN [next |-> "break", response_lines |-> lines]
    ELSE IF strip(rx) # << >>
      THEN [next |-> "loop", response_lines |-> Append(lines, strip(rx))]
    ELSE [next |-> "loop", response_lines |-> lines]

\* RS485Controller(port, ...): serial_conn = None.
NewRS485Controller == [obj |-> TRUE, serial_conn |-> "None"]

\* A call on the controller as the properties see it: the method, whether
\* the port was open when it was made, the first MaxRx results of readline()
\* (more: there were others), the last of them, how the call ended
\* ("running": it has not), the exception it raised and the value it
\* returned.
SerialCall(op, ended, raised, value) ==
    [op |-> op, open |-> rs485_controller.serial_conn = "open",
     received |-> << >>, more |-> FALSE, ended |-> ended,
     raised |-> raised, value |-> value]

\* A controller just constructed.
InitSerial ==
    /\ pc = "serial_object"
    /\ idx = 1
    /\ step_counter = 0
    /\ test_result = NoTestResult
    /\ ui = << >>
    /\ callback = FALSE
    /\ stop_event = FALSE
    /\ stop_on_fail = FALSE
    /\ sequence = TEST_SEQUENCE
    /\ threshold_sleep_current_ua = MaxUa
    /\ response_lines = << >>
    /\ line_bytes = << >>
    /\ dut_power = FALSE
    /\ relay_board = NoBoard
    /\ reporting = NoReport
    /\ relay_controller = NoRelay
    /\ rs485_controller = NewRS485Controller
    /\ ppk2_meter = NoPPK2
    /\ ina3221_meter = NoINA
    /\ clock = 0
    /\ faults = 0
    /\ exc = "none"
    /\ returned = "running"
    /\ hist = NoHist

SerialFrame ==
    UNCHANGED << idx, step_counter, test_result, ui, callback, stop_event,
                 stop_on_fail, sequence, threshold_sleep_current_ua,
                 dut_power, relay_board, reporting, relay_controller,
                 ppk2_meter, ina3221_meter, clock, exc, returned >>

\* A call begins: it is counted and becomes the call observed.
BeginSerialCall(call) ==
    /\ hist.serial_calls < MaxSerialCalls
    /\ hist' = [hist EXCEPT !.serial_calls = @ + 1, !.serial_call = <<call>>]

\* controller.connect(): serial.Serial(...) returns the open port, or
\* raises SerialException, which connect re-raises with serial_conn as it was.
SerialConnect ==
    /\ pc = "serial_object"
    /\ \E opened \in BOOLEAN :
          /\ ~opened => faults < MaxFaults
          /\ faults' = IF opened THEN faults ELSE faults + 1
          /\ rs485_controller' =
                IF opened THEN [rs485_controller EXCEPT !.serial_conn = "open"]
                          ELSE rs485_controller
          /\ BeginSerialCall(SerialCall("connect", "returned",
                                IF opened THEN "none" ELSE "SerialException",
                                <<"None">>))
    /\ UNCHANGED << pc, response_lines, line_bytes >>
    /\ SerialFrame

\* controller.disconnect(): closes the port if there is one and it is open.
SerialDisconnect ==
    /\ pc = "serial_object"
    /\ rs485_controller' =
          IF rs485_controller.serial_conn = "open"
            THEN [rs485_controller EXCEPT !.serial_conn = "closed"]
            ELSE rs485_controller
    /\ BeginSerialCall(SerialCall("disconnect", "returned", "none", <<"None">>))
    /\ UNCHANGED << pc, response_lines, line_bytes, faults >>
    /\ SerialFrame

\* send_command lines 55-61: ConnectionError without an open port; else the
\* command is written (the write may raise) and the loop is entered with an
\* empty list.
SerialSendCommand ==
    /\ pc = "serial_object"
    /\ IF rs485_controller.serial_conn # "open"
         THEN /\ BeginSerialCall(SerialCall("send_command", "not_connected",
                                            "ConnectionError", <<"-">>))
              /\ UNCHANGED << pc, response_lines, faults >>
         ELSE \E written \in BOOLEAN :
                 /\ ~written => faults < MaxFaults
                 /\ faults' = IF written THEN faults ELSE faults + 1
                 /\ pc' = IF written THEN "serial_readline" ELSE pc
                 /\ response_lines' = IF written THEN << >> ELSE response_lines
                 /\ BeginSerialCall(
                       IF written
                         THEN SerialCall("send_command", "running", "none", <<"-">>)
                         ELSE SerialCall("send_command", "write_error",
                                         "SerialException", <<"-">>))
    /\ UNCHANGED << rs485_controller, line_bytes >>
    /\ SerialFrame

\* What the observation of the call in progress becomes when readline()
\* has returned rx.
Received(call, rx) ==
    IF Len(call.received) < MaxRx
      THEN [call EXCEPT !.received = Append(@, rx)]
      ELSE [call EXCEPT !.more = TRUE]

\* send_command line 64: readline() returns the next line of the DUT, or
\* b"" when the read timeout passes without one; or it raises, and the
\* except clause of lines 77-79 leaves the loop with the lines read so far.
\* (A DUT sends at most MaxLines lines with text in one response, and any
\* number of empty ones.)
SerialReadline ==
    /\ pc = "serial_readline"
    /\ \/ \E rx \in {Timeout} \cup PromptLines \cup BlankLines \cup
                    { l \in TextLines : Len(response_lines) < MaxLines } :
             /\ line_bytes' = rx
             /\ pc' = "serial_line"
             /\ hist' = [hist EXCEPT !.serial_call =
                            << Received(@[1], rx) >>]
             /\ UNCHANGED << response_lines, faults >>
       \/ /\ faults < MaxFaults
          /\ faults' = faults + 1
          /\ pc' = "serial_object"
          /\ hist' = [hist EXCEPT !.serial_call =
                         << [@[1] EXCEPT !.ended = "read_error",
                                         !.value = <<"list", response_lines>>] >>]
          /\ UNCHANGED << response_lines, line_bytes >>
    /\ UNCHANGED rs485_controller
    /\ SerialFrame

\* send_command lines 65-75 and 81-82: the line is examined; the call
\* returns None, returns the list, or goes round the loop.
SerialLine ==
    /\ pc = "serial_line"
    /\ LET r == read_line(response_lines, line_bytes)
       IN  /\ response_lines' = r.response_lines
           /\ pc' = IF r.next = "loop" THEN "serial_readline" ELSE "serial_object"
           /\ hist' = [hist EXCEPT !.serial_call =
                         << CASE r.next = "return_none" ->
                                   [@[1] EXCEPT !.ended = "returned",
                                                !.value = <<"None">>]
                              [] r.next = "break" ->
                                   [@[1] EXCEPT !.ended = "returned",
                                                !.value = <<"list", r.response_lines>>]
                              [] OTHER -> @[1] >>]
    /\ UNCHANGED << rs485_controller, line_bytes, faults >>
    /\ SerialFrame

NextSerial ==
    \/ SerialConnect
    \/ SerialDisconnect
    \/ SerialSendCommand
    \/ SerialReadline
    \/ SerialLine

SpecSerial == InitSerial /\ [][NextSerial]_vars

\* The worker thread runs, and readline() comes back after the read timeout
\* at the latest.
SpecSerialLive ==
    /\ InitSerial
    /\ [][NextSerial]_vars
    /\ WF_vars(SerialReadline)
    /\ WF_vars(SerialLine)

\* ------------------------------------------------------------- properties
Steps == test_result.steps

HasFail(steps) == \E i \in 1..Len(steps) : steps[i].status = "FAIL"

TestingCount(steps) ==
    Cardinality({ i \in 1..Len(steps) : steps[i].status = "TESTING" })

IsCritical(step) == step.status = "FAIL" /\ step.message = "ERROR CRITICO"

Ended == returned # "running"

Done(p) == \E i \in 1..Len(hist.phases) : hist.phases[i] = p

\* p is completed before q whenever q is completed.
Before(p, q) ==
    \A j \in 1..Len(hist.phases) :
       hist.phases[j] = q => \E i \in 1..(j - 1) : hist.phases[i] = p

\* C1: run_full_test never raises.  When an exception was raised in the
\* connect phase or left a step handler, the run ends by returning "PASS" or
\* "FAIL", with the critical-error FAIL record appended and disconnect,
\* finalize, summary, local log and API sync all done.
C1_NeverRaises ==
    (Ended /\ (hist.connect_exc # "none" \/ hist.step_exc # 0)) =>
        /\ returned \in {"PASS", "FAIL"}
        /\ \E i \in 1..Len(Steps) : IsCritical(Steps[i])
        /\ \A p \in {"finalize", "disconnect", "summary", "local_log", "api"} : Done(p)

\* C2: teardown-always.  When a run has ended, disconnect() has been invoked
\* on every device handle that was successfully connected in that run.
C2_TeardownAlways ==
    Ended => hist.connected \subseteq hist.disconnect_invoked

\* C3: independent best-effort teardown.  When disconnect() of one device
\* raised, disconnect() was still invoked on every other handle, the summary
\* was reported and the run returned a status.
C3_BestEffortTeardown ==
    (Ended /\ hist.disconnect_exc # "none") =>
        /\ relay_controller.obj => "relay" \in hist.disconnect_invoked
        /\ rs485_controller.obj => "rs485" \in hist.disconnect_invoked
        /\ ppk2_meter.obj => "ppk2" \in hist.disconnect_invoked
        /\ ina3221_meter.obj => "ina3221" \in hist.disconnect_invoked
        /\ Done("summary")
        /\ returned \in {"PASS", "FAIL"}

\* C4: monotonic failure.  Once the steps list holds a FAIL record, every
\* later operation (add_step with any status, finalize) leaves
\* overall_status at FAIL.
C4_MonotonicFailure ==
    [][HasFail(test_result.steps) =>
         /\ test_result.overall_status = "FAIL"
         /\ test_result'.overall_status = "FAIL"]_vars

C4_Witness ==
    /\ pc = "object"
    /\ Len(Steps) >= 2
    /\ Steps[1].status = "FAIL"
    /\ Steps[2].status = "PASS"
    /\ test_result.end_time # NoTime
    /\ test_result.overall_status = "FAIL"

\* C5: in every state of a run, overall_status is FAIL exactly when the
\* steps list contains a FAIL record.
C5_FailIffFailStep ==
    (test_result.overall_status = "FAIL") <=> HasFail(Steps)

C5_Witness ==
    /\ pc = "loop"
    /\ test_result.overall_status = "FAIL"
    /\ Steps[Len(Steps)].status = "PASS"
    /\ Steps[1].status = "HEADER"

\* C6: finalize-once.  end_time is null as long as finalize() has not been
\* called; finalize() is called at most once, exactly once by the end of the
\* run, and only after the connect phase failed or the loop ended
\* (cancelled, stopped on fail, handler missing, exception escaped, or every
\* entry of the sequence dispatched).
C6_FinalizeOnce ==
    /\ hist.finalize_calls = 0 => test_result.end_time = NoTime
    /\ hist.finalize_calls <= 1
    /\ Ended => hist.finalize_calls = 1
    /\ hist.finalize_calls = 1 =>
          /\ test_result.end_time # NoTime
          /\ \/ hist.connect_exc # "none"
             \/ hist.loop_end \in {"stopped", "stop_on_fail", "missing", "exception"}
             \/ /\ hist.loop_end = "exhausted"
                /\ hist.dispatched = [i \in 1..Len(TEST_SEQUENCE) |-> i]
                /\ step_counter = Len(TEST_SEQUENCE)

C6_Witness ==
    /\ pc = "done"
    /\ hist.finalize_calls = 1
    /\ hist.loop_end = "exhausted"
    /\ test_result.end_time # NoTime

\* C7: finalize() is idempotent.  Once end_time is set, a further finalize()
\* call leaves it equal to the value the first call set.
C7_FinalizeIdempotent ==
    [][test_result.end_time # NoTime =>
         test_result'.end_time = test_result.end_time]_vars

\* C8: terminal phase ordering.  Teardown is completed before finalize() is
\* called, and after finalize() the result is not appended to or modified.
C8_TerminalOrdering ==
    /\ Before("disconnect", "finalize")
    /\ hist.finalize_calls > 0 => Len(Steps) = hist.steps_at_finalize

\* C9: connect failure is fatal.  When connect() of a device raised, no step
\* handler was dispatched, the devices after it were not connected, and the
\* run ends with the critical-error FAIL record appended, teardown done, and
\* "FAIL" returned.
C9_ConnectFailureFatal ==
    hist.connect_exc # "none" =>
        /\ hist.dispatched = << >>
        /\ step_counter = 0
        /\ hist.connect_exc \notin hist.connected
        /\ pc \notin {"connect", "except"} =>
              \E i \in 1..Len(Steps) : IsCritical(Steps[i])
        /\ Ended =>
              /\ Done("disconnect")
              /\ hist.connected \subseteq hist.disconnect_invoked
              /\ returned = "FAIL"

\* C10 as stated: the finalized result holds one record per attempted
\* sequence step and nothing else; exactly one record when the relay
\* connect raised.
C10_RecordCount ==
    test_result.end_time # NoTime =>
        /\ Len(Steps) = step_counter
        /\ hist.connect_exc = "relay" => Len(Steps) = 1

\* C10 amended: the steps list holds one record per _report call; exactly
\* one of them per attempted sequence step has status TESTING, numbered in
\* dispatch order (three when stop-on-fail halts the run at step 3).  When
\* the relay connect raised there is no TESTING record and the list starts
\* with the connect header followed by the critical-error FAIL record.
C10_RecordCountAmended ==
    /\ TestingCount(Steps) = step_counter
    /\ \A i \in 1..Len(Steps) :
          Steps[i].status = "TESTING" =>
             Steps[i].step_name = TestingCount(SubSeq(Steps, 1, i))
    /\ (hist.loop_end = "stop_on_fail" /\ Len(hist.dispatched) = 3) =>
          TestingCount(Steps) = 3
    /\ (hist.connect_exc = "relay" /\ Done("except")) =>
          /\ TestingCount(Steps) = 0
          /\ Len(Steps) >= 2
          /\ Steps[1].status = "HEADER"
          /\ IsCritical(Steps[2])

C10_Witness ==
    /\ pc = "done"
    /\ stop_on_fail
    /\ hist.loop_end = "stop_on_fail"
    /\ hist.dispatched = <<1, 2, 3>>
    /\ TestingCount(Steps) = 3
    /\ Len(Steps) > 3

\* The positions of the worker after the sequencing loop was left.
PostLoop ==
    {"finalize", "disconnect", "summary", "local_log", "api", "return",
     "done", "raised"}

\* The records _report appends for the reports rs at a step counter.
StepRecords(counter, rs) ==
    [i \in 1..Len(rs) |->
        TestStepResult(counter, rs[i].status, rs[i].message, rs[i].details)]

HasRecord(steps, r) ==
    \E i \in 1..Len(steps) :
       steps[i].status = r.status /\ steps[i].message = r.message

\* C11: cancellation at a step boundary.  When the loop observed the stop
\* flag set before dispatching step idx, then step idx and every later step
\* is never dispatched, the cancellation FAIL record is in the result and
\* overall_status is FAIL, and the run has left the loop for the teardown
\* (once past it, the teardown header is recorded).
C11_CancelAtBoundary ==
    hist.loop_end = "stopped" =>
        /\ stop_event
        /\ pc \in PostLoop
        /\ hist.dispatched = [i \in 1..(idx - 1) |-> i]
        /\ step_counter = idx - 1
        /\ HasRecord(Steps, user_stop_report)
        /\ test_result.overall_status = "FAIL"
        /\ pc \notin {"finalize", "disconnect"} =>
              \E i \in 1..Len(Steps) :
                 Steps[i].message = "--- Desconectando del hardware ---"

C11_Witness ==
    /\ pc = "done"
    /\ hist.loop_end = "stopped"
    /\ hist.dispatched = <<1, 2>>
    /\ returned = "FAIL"
    /\ Done("disconnect")

\* C12: cancellation is coarse-grained.  A handler that is in flight while
\* the stop flag is set still appends all the reports of one of its
\* outcomes; from the moment the flag is set no step is dispatched any more;
\* and the loop, at its next boundary, leaves with the cancellation record.
C12_CoarseCancellation ==
    [][/\ (stop_event /\ pc = "call" /\ pc' # "call") =>
            \E o \in CallOutcomes(sequence[idx]) :
               LET counter == IF o.started THEN step_counter + 1 ELSE step_counter
                   base == Steps \o StepRecords(counter, o.reports)
               IN  test_result'.steps \in
                      {base, base \o StepRecords(counter, <<stop_on_fail_report>>)}
       /\ stop_event => hist'.dispatched = hist.dispatched
       /\ (stop_event /\ pc = "loop" /\ pc' # "loop") =>
            /\ pc' = "finalize"
            /\ hist'.loop_end = "stopped"
            /\ HasRecord(test_result'.steps, user_stop_report)]_vars

C12_Witness ==
    /\ pc = "done"
    /\ hist.stop_in_flight = 2
    /\ hist.loop_end = "stopped"
    /\ hist.dispatched = <<1, 2>>
    /\ HasRecord(Steps, Rep("Vin activado correctamente -> PASS", "PASS", "None", {}))

\* C13: stop-on-fail.  With the policy enabled no step is dispatched while
\* overall_status is FAIL; when a step left it at FAIL the loop is left
\* right after that step, no critical-error record is appended, and by the
\* end of the run disconnect() was invoked on every connected device.
C13_StopOnFail ==
    stop_on_fail =>
        /\ pc \in {"loop", "call"} => test_result.overall_status = "PASS"
        /\ hist.loop_end = "stop_on_fail" =>
              /\ pc \in PostLoop
              /\ hist.dispatched = [i \in 1..idx |-> i]
              /\ step_counter = idx
              /\ ~\E i \in 1..Len(Steps) : IsCritical(Steps[i])
              /\ Ended => hist.connected \subseteq hist.disconnect_invoked

\* C14: with stop-on-fail disabled and no cancellation observed, the steps
\* are dispatched one at a time in list order whatever they report, and a
\* loop that no exception ended has dispatched every entry of the sequence
\* exactly once.
C14_ContinueAfterFail ==
    (~stop_on_fail /\ hist.loop_end # "stopped") =>
        /\ hist.dispatched = [i \in 1..Len(hist.dispatched) |-> i]
        /\ pc = "call" => hist.dispatched[Len(hist.dispatched)] = idx
        /\ pc = "loop" => Len(hist.dispatched) = idx - 1
        /\ (pc \in PostLoop /\ hist.connect_exc = "none" /\ hist.step_exc = 0) =>
              /\ hist.loop_end = "exhausted"
              /\ hist.dispatched = [i \in 1..Len(sequence) |-> i]
              /\ step_counter = Len(sequence)
              /\ TestingCount(Steps) = Len(sequence)

C14_Witness ==
    /\ pc = "done"
    /\ ~stop_on_fail
    /\ hist.loop_end = "exhausted"
    /\ Len(hist.dispatched) = Len(TEST_SEQUENCE)
    /\ HasRecord(Steps, Rep("Fallo al leer informacion del dispositivo o respuesta invalida.",
                            "FAIL", "check_initial_status", {}))
    /\ HasRecord(Steps, Rep("Fallo al enviar Modem JSON -> FAIL", "FAIL", "None", {}))

\* C15: missing handler.  When the key of the entry at idx resolved to no
\* method, the missing-method FAIL record is appended, neither that entry
\* nor a later one is dispatched, and the run ends having gone through
\* teardown and one finalize() and having returned "FAIL".
C15_MissingHandler ==
    hist.loop_end = "missing" =>
        /\ HasRecord(Steps, missing_method_report)
        /\ test_result.overall_status = "FAIL"
        /\ pc \in PostLoop
        /\ hist.dispatched = [i \in 1..(idx - 1) |-> i]
        /\ Ended =>
              /\ Done("disconnect")
              /\ hist.finalize_calls = 1
              /\ returned = "FAIL"

\* C16: every key of the shipped TEST_SEQUENCE names a method of
\* TestRunner and carries as many arguments as the method has parameters,
\* so the loop never leaves through the missing-method branch.
C16_SequenceResolves ==
    /\ \A i \in 1..Len(sequence) :
          /\ MethodName(sequence[i].key) \in TestRunnerMethods
          /\ Len(sequence[i].args) = HandlerParams(sequence[i].key)
    /\ hist.loop_end # "missing"
    /\ ~HasRecord(Steps, missing_method_report)

C16_Witness ==
    /\ pc = "loop"
    /\ idx = 11
    /\ hist.dispatched = [i \in 1..10 |-> i]
    /\ hist.step_exc = 0

\* C17: _report is atomic.  In every state, each event the UI has been
\* notified of is in TestResult.steps, at the same position and with the
\* same message and status.
C17_ReportAtomic ==
    \A i \in 1..Len(ui) :
       /\ i <= Len(Steps)
       /\ Steps[i].message = ui[i][2]
       /\ Steps[i].status = ui[i][3]

\* C18: order preservation.  With a callback set, the steps list of the
\* finalized result has as many records as there were callback invocations
\* and the i-th record has the step_name, the status and the message of the
\* i-th invocation.
C18_OrderPreservation ==
    (callback /\ test_result.end_time # NoTime) =>
        /\ Len(Steps) = Len(ui)
        /\ \A i \in 1..Len(Steps) :
              /\ i <= Len(ui)
              /\ Steps[i].message = ui[i][2]
              /\ Steps[i].status = ui[i][3]
              /\ PasoName(Steps[i].step_name) = ui[i][1]

\* C19: reporting failures are soft.  Neither the local log write nor the
\* API sync changes overall_status, whatever their outcome.
C19_SoftReporting ==
    [][(pc \in {"local_log", "api"}) =>
         test_result'.overall_status = test_result.overall_status]_vars

\* C20: every run that has ended emitted the final summary with status PASS
\* or FAIL and went through the local log write before the API sync; a log
\* file that was written holds every record up to and including the
\* summary, whatever the outcome of the sync.
C20_SummaryAndRecord ==
    Ended =>
        /\ hist.summary \in {"PASS", "FAIL"}
        /\ Done("local_log")
        /\ Before("local_log", "api")
        /\ hist.persisted # -1 =>
              /\ hist.persisted <= Len(Steps)
              /\ Steps[hist.persisted].message = "Test finalizado. Resultado"

\* C21: whenever a run has both written the local log file and handed a
\* payload to the API, the two documents are the same record: same overall
\* status, same step records.
C21_SameRecord ==
    (hist.local_file # << >> /\ hist.api_payload # << >>) =>
        /\ hist.api_payload[1].overall_status = hist.local_file[1].overall_status
        /\ hist.api_payload[1].steps = hist.local_file[1].steps

\* The result holds the record of report r made at step counter k.
StepHas(k, r) ==
    \E i \in 1..Len(Steps) :
        Steps[i] = TestStepResult(k, r.status, r.message, r.details)

\* The current the handler entered as the n-th read from the PPK2.
MeasuredCurrent(n) == hist.observed[n].readings[1].value

\* The handler calls that measured the sleep current against a configured
\* threshold.
SleepMeasurements ==
    { n \in 1..Len(hist.observed) :
        /\ hist.observed[n].key = "test_step_measure_sleep_current"
        /\ hist.observed[n].readings # << >>
        /\ threshold_sleep_current_ua # NoThreshold }

\* C22: the sleep-current step reports PASS exactly when the measured
\* current is strictly below the configured threshold; a reading equal to
\* or above the threshold reports the threshold FAIL and no PASS.
C22_SleepThreshold ==
    \A n \in SleepMeasurements :
        LET k == hist.observed[n].counter
            a == MeasuredCurrent(n)
        IN  /\ StepHas(k, SleepPass) <=> a < threshold_sleep_current_ua
            /\ StepHas(k, SleepFail) <=> a >= threshold_sleep_current_ua

\* A run measured exactly the threshold and reported FAIL, under a
\* threshold that a lower reading would have passed.
C22_Witness ==
    \E n \in SleepMeasurements :
        /\ threshold_sleep_current_ua > 0
        /\ MeasuredCurrent(n) = threshold_sleep_current_ua
        /\ StepHas(hist.observed[n].counter, SleepFail)
        /\ Ended

\* The handler calls of the sleep-current step that obtained a measurement.
SleepMeasured ==
    { n \in 1..Len(hist.observed) :
        /\ hist.observed[n].key = "test_step_measure_sleep_current"
        /\ hist.observed[n].readings # << >> }

\* The handler calls of the send-current step that handed a value to
\* send_command.
CurrentSent ==
    { m \in 1..Len(hist.observed) :
        /\ hist.observed[m].key = "test_step_send_current_result"
        /\ Len(hist.observed[m].readings) = 2 }

\* C23: the value the sleep-current step measured is stored in the details
\* of its verdict record, and the value the send-current step transmits is
\* that stored value.
C23_StoredCurrentSent ==
    /\ \A n \in SleepMeasured :
          \A i \in 1..Len(Steps) :
             ( /\ Steps[i].step_name = hist.observed[n].counter
               /\ Steps[i].message \in {SleepPass.message, SleepFail.message} )
             => Steps[i].details # {}
    /\ \A m \in CurrentSent :
          \E n \in SleepMeasured :
             /\ n < m
             /\ hist.observed[m].readings[2].value = MeasuredCurrent(n)

\* The result records a handler made as step k: those after the TESTING
\* record of k and before the next TESTING or HEADER record.
HandlerRecords(k) ==
    LET testing == { i \in 1..Len(Steps) :
                        Steps[i].status = "TESTING" /\ Steps[i].step_name = k }
        t == IF testing = {} THEN Len(Steps) ELSE CHOOSE i \in testing : TRUE
        later == { i \in (t + 1)..Len(Steps) :
                      Steps[i].status \in {"TESTING", "HEADER"} }
        e == IF later = {} THEN Len(Steps) + 1
             ELSE CHOOSE i \in later : \A j \in later : i <= j
    IN  SubSeq(Steps, t + 1, e - 1)

HasPass(steps) == \E i \in 1..Len(steps) : steps[i].status = "PASS"

RelaySteps ==
    { "test_step_connect_battery", "test_step_apply_vin",
      "test_step_disconnect_battery", "test_step_disconnect_vin",
      "test_step_test_onboard_relay" }

\* C24: every relay step that returned without a board error re-read the
\* relay after setting it; when the read-back disagrees with the commanded
\* state the step has a FAIL record and no PASS record, and when it agrees
\* the step has a PASS record.  (Stated of the handler entered last: the
\* records of an earlier handler no longer change.)
C24_RelayReadBack ==
    \A n \in {Len(hist.observed)} \ {0} :
        hist.observed[n].key \in RelaySteps =>
            LET recs == HandlerRecords(hist.observed[n].counter)
                rd == hist.observed[n].readings
            IN  /\ rd = << >> => HasFail(recs) /\ ~HasPass(recs)
                /\ rd # << >> =>
                      /\ Len(rd) = 1 /\ rd[1].kind = "relay"
                      /\ rd[1].actual # rd[1].commanded =>
                            HasFail(recs) /\ ~HasPass(recs)
                      /\ rd[1].actual = rd[1].commanded => HasPass(recs)

\* A run in which a relay commanded ON read back OFF and the step failed.
C24_Witness ==
    /\ Ended
    /\ \E n \in 1..Len(hist.observed) :
          /\ hist.observed[n].key \in RelaySteps
          /\ hist.observed[n].readings # << >>
          /\ hist.observed[n].readings[1].commanded
          /\ ~hist.observed[n].readings[1].actual
          /\ HasFail(HandlerRecords(hist.observed[n].counter))

\* A run of Scenario A in which every device behaved (no deviation) and the
\* loop went through the whole sequence.
ScenarioACorrect ==
    /\ sequence = ScenarioA
    /\ faults = 0
    /\ hist.loop_end = "exhausted"

\* C25: Scenario A against devices that all behave correctly yields a
\* result with three steps (one TESTING record per step), every verdict of
\* the three handlers PASS, and overall PASS, in the result and in the value
\* run_full_test returns.
C25_ScenarioA ==
    (ScenarioACorrect /\ Ended) =>
        /\ TestingCount(Steps) = 3
        /\ \A k \in 1..3 : /\ HasPass(HandlerRecords(k))
                            /\ ~HasFail(HandlerRecords(k))
        /\ test_result.overall_status = "PASS"
        /\ returned = "PASS"

\* The order of the truth table: (off,off), (on,off), (off,on), (on,on).
TruthTableOrder ==
    << <<FALSE, FALSE>>, <<TRUE, FALSE>>, <<FALSE, TRUE>>, <<TRUE, TRUE>> >>

\* The tamper step entered last, with the sub-checks it made: the relays
\* are driven in the order of the truth table, sub-check i reports PASS only
\* on states reported by the device named source that equal the expected
\* pair, reports FAIL on a mismatch, and a mismatch leaves the remaining
\* combinations to be exercised and reported (only an exception ends the
\* step early, with the error record).
TamperTruthTable(source) ==
    \A n \in {Len(hist.observed)} \ {0} :
        hist.observed[n].key = "test_step_test_tampers" =>
            LET recs == HandlerRecords(hist.observed[n].counter)
                rd == hist.observed[n].readings
            IN  /\ Len(rd) <= 4 /\ Len(rd) <= Len(recs)
                /\ \A i \in 1..Len(rd) :
                      /\ rd[i].commanded = TruthTableOrder[i]
                      /\ rd[i].expected = TruthTableOrder[i]
                      /\ recs[i].status = "PASS" =>
                            rd[i].kind = source /\ rd[i].actual = rd[i].expected
                      /\ rd[i].actual # rd[i].expected => recs[i].status = "FAIL"
                /\ Len(rd) < 4 => HasRecord(recs, TamperError)

\* C26: the tamper step exercises the four combinations in the order
\* (off,off), (on,off), (off,on), (on,on); a sub-check reports PASS only if
\* the tamper states reported by the DUT match the expected pair, and a
\* mismatch fails that sub-check without keeping the others from being
\* exercised and reported.
C26_TamperTruthTable == TamperTruthTable("dut")

\* C27: no step handler lets an exception escape to the sequencing loop: no
\* exception ever leaves a handler call, and the critical-error path is
\* entered from the connect phase only.
C27_HandlersContainErrors ==
    /\ hist.step_exc = 0
    /\ exc # "step"
    /\ (pc = "except" \/ Done("except")) => hist.connect_exc # "none"

RelayCalls == hist.relay_calls

\* C28: set_relay with a relay number outside 1..num_relays raises
\* ValueError and sends no command to the board, on a connected controller
\* and on one that has never been connected.
C28_InvalidRelayNumber ==
    \A i \in 1..Len(RelayCalls) :
        ( /\ RelayCalls[i].op = "set_relay"
          /\ ~(1 <= RelayCalls[i].relay_num
                /\ RelayCalls[i].relay_num <= RelayCalls[i].num_relays) )
        => /\ RelayCalls[i].raised = "ValueError"
           /\ RelayCalls[i].sent = << >>

\* The set_state calls cmds command every relay 1..n OFF and nothing else.
AllCommandedOff(cmds, n) ==
    /\ \A r \in 1..n : \E j \in 1..Len(cmds) : cmds[j] = <<r, FALSE>>
    /\ \A j \in 1..Len(cmds) : cmds[j][1] \in 1..n /\ ~cmds[j][2]

\* The state the board was last commanded to for relay r is OFF.
LastCommandedOff(r) ==
    LET about == { j \in 1..Len(relay_board.commands) :
                      relay_board.commands[j][1] = r }
    IN  /\ about # {}
        /\ \A j \in about : (\A l \in about : l <= j) =>
                                  ~relay_board.commands[j][2]

\* C29: relay safe state.  A connect() that returned, and a disconnect() of
\* a connected controller that returned, commanded every relay
\* 1..num_relays OFF, whatever set_relay calls came before; a valid
\* set_relay(n, s) on a connected controller that returned was forwarded to
\* the board as set_state(n, s); and right after such a connect or
\* disconnect the last command the board holds for every relay is OFF (the
\* handle being released by the disconnect).
C29_RelaySafeState ==
    /\ \A i \in 1..Len(RelayCalls) :
          LET c == RelayCalls[i]
          IN  /\ (c.op = "connect" /\ c.raised = "none") =>
                    AllCommandedOff(c.sent, c.num_relays)
              /\ (c.op = "disconnect" /\ c.connected /\ c.raised = "none") =>
                    AllCommandedOff(c.sent, c.num_relays)
              /\ ( /\ c.op = "set_relay" /\ c.connected /\ c.raised = "none" ) =>
                    c.sent = << <<c.relay_num, c.state>> >>
    /\ \A i \in {Len(RelayCalls)} \ {0} :
          LET c == RelayCalls[i]
          IN  ( /\ c.raised = "none"
                /\ \/ c.op = "connect"
                   \/ c.op = "disconnect" /\ c.connected )
              => /\ \A r \in 1..c.num_relays : LastCommandedOff(r)
                 /\ c.op = "disconnect" => ~relay_controller.relay_device

\* A controller was connected, a relay was set ON, and the disconnect that
\* followed returned with the relay commanded OFF again.
C29_Witness ==
    /\ Len(RelayCalls) = 3
    /\ RelayCalls[1].op = "connect" /\ RelayCalls[1].raised = "none"
    /\ RelayCalls[2].op = "set_relay" /\ RelayCalls[2].raised = "none"
    /\ RelayCalls[2].state
    /\ RelayCalls[3].op = "disconnect" /\ RelayCalls[3].raised = "none"
    /\ RelayCalls[3].num_relays > 1
    /\ LastCommandedOff(RelayCalls[2].relay_num)

\* C30: connect() with no relay board to be found raises ConnectionError
\* without a command to the board and leaves the controller disconnected:
\* it holds no device handle, a set_relay that follows raises
\* ConnectionError and a disconnect that follows returns without a command.
C30_ConnectNotFound ==
    \A i \in 1..Len(RelayCalls) :
        (RelayCalls[i].op = "connect" /\ ~RelayCalls[i].present) =>
            /\ RelayCalls[i].raised = "ConnectionError"
            /\ RelayCalls[i].sent = << >>
            /\ i = Len(RelayCalls) => ~relay_controller.relay_device
            /\ i < Len(RelayCalls) =>
                  LET next == RelayCalls[i + 1]
                  IN  /\ ~next.connected
                      /\ next.op = "set_relay" =>
                            next.raised = "ConnectionError" /\ next.sent = << >>
                      /\ next.op = "disconnect" =>
                            next.raised = "none" /\ next.sent = << >>

\* A controller that had been connected is connected again after the board
\* was pulled out: the connect raises, and the set_relay after it raises
\* ConnectionError.
C30_Witness ==
    /\ Len(RelayCalls) = 3
    /\ RelayCalls[1].op = "connect" /\ RelayCalls[1].raised = "none"
    /\ RelayCalls[2].op = "connect" /\ ~RelayCalls[2].present
    /\ RelayCalls[2].connected
    /\ RelayCalls[2].raised = "ConnectionError"
    /\ RelayCalls[3].op = "set_relay"
    /\ RelayCalls[3].raised = "ConnectionError"

\* The last connect or disconnect call made before call i (0: none).
LastLifecycleCall(i) ==
    LET before == { j \in 1..(i - 1) :
                       RelayCalls[j].op \in {"connect", "disconnect"} }
    IN  IF before = {} THEN 0
        ELSE CHOOSE j \in before : \A l \in before : l <= j

\* Call i is made on a handle that is not connected: it was never
\* connected, its last connect() raised, or its last disconnect() returned.
NotConnectedAt(i) ==
    LET j == LastLifecycleCall(i)
    IN  \/ j = 0
        \/ RelayCalls[j].op = "connect" /\ RelayCalls[j].raised # "none"
        \/ RelayCalls[j].op = "disconnect" /\ RelayCalls[j].raised = "none"

\* C31: teardown is idempotent, shown on the relay handle: a disconnect()
\* on a controller that was never connected, whose last connect() raised, or
\* whose last disconnect() returned raises nothing and sends no command to
\* the board.
C31_TeardownIdempotent ==
    \A i \in 1..Len(RelayCalls) :
        (RelayCalls[i].op = "disconnect" /\ NotConnectedAt(i)) =>
            /\ RelayCalls[i].raised = "none"
            /\ RelayCalls[i].sent = << >>

\* The send_command call observed, if the latest call is one.
SendCommandCalls ==
    { hist.serial_call[i] : i \in { j \in 1..Len(hist.serial_call) :
                                      hist.serial_call[j].op = "send_command" } }

\* The text of the lines rxs as the caller should get it: the characters of
\* each line that are not whitespace (no line of the model has whitespace
\* inside its text), the empty lines left out.
RECURSIVE ResponseText(_)
ResponseText(rxs) ==
    IF rxs = << >> THEN << >>
    ELSE LET text == SelectSeq(Head(rxs), LAMBDA ch : ch \notin Whitespace)
         IN  (IF text = << >> THEN << >> ELSE <<text>>) \o ResponseText(Tail(rxs))

\* C32: the outcomes of send_command are distinguishable.  A call on a
\* controller whose port is not open raises ConnectionError before anything
\* is read, and no other call does; a call that ends on the prompt line
\* returns the list of the text lines received before it; a call that ends
\* on a read timeout returns None without raising, whatever lines came
\* before, and None is returned in no other case.
C32_SerialOutcomes ==
    \A c \in SendCommandCalls :
        /\ (c.raised = "ConnectionError") <=> ~c.open
        /\ ~c.open => c.received = << >> /\ c.value = <<"-">>
        /\ (c.ended = "returned" /\ line_bytes \in PromptLines) =>
              /\ c.raised = "none"
              /\ c.value[1] = "list"
              /\ ~c.more =>
                    c.value[2] =
                        ResponseText(SubSeq(c.received, 1, Len(c.received) - 1))
        /\ (c.ended = "returned" /\ line_bytes = Timeout) =>
              c.raised = "none" /\ c.value = <<"None">>
        /\ c.value = <<"None">> => c.ended = "returned" /\ line_bytes = Timeout

\* A call read a line of text and then met the read timeout: it returned
\* None, not the line.
C32_Witness ==
    \E c \in SendCommandCalls :
        /\ c.ended = "returned"
        /\ Len(c.received) = 2
        /\ c.received[1] \in TextLines
        /\ c.received[2] = Timeout
        /\ response_lines # << >>
        /\ c.value = <<"None">>

\* C33: send_command terminates: a call that has entered its read loop
\* eventually returns, whatever the DUT sends.
C33_SendCommandReturns ==
    (pc \in {"serial_readline", "serial_line"}) ~> (pc = "serial_object")

\* A step of the run has read the serial number from the DUT: the barcode
\* step reported it as read.
SerialNumberRead == HasRecord(Steps, BarcodePass(1))

\* C34: the serial number of the result is the unknown sentinel until a
\* step reads it from the DUT; once a step has read it, the result carries
\* the DUT's serial, and so does the document written to the local file.
C34_SerialNumberFilled ==
    /\ (test_result.obj /\ ~SerialNumberRead) =>
          test_result.serial_number = "NOT_READ"
    /\ SerialNumberRead =>
          /\ test_result.serial_number # "NOT_READ"
          /\ hist.local_file # << >> =>
                hist.local_file[1].serial_number # "NOT_READ"

\* C35: every run_full_test invocation starts from a fresh result.  When a
\* later run on the same TestRunner has passed its first two statements, the
\* result is a new one (overall status PASS, no step records, end_time not
\* set, no serial number) and the step counter is 0, whatever the run before
\* left behind; and up to the first step the result holds no FAIL.
C35_FreshResult ==
    (hist.runs >= 1) =>
        /\ pc = "connect" =>
              /\ test_result.obj
              /\ test_result.overall_status = "PASS"
              /\ test_result.steps = << >>
              /\ test_result.end_time = NoTime
              /\ test_result.serial_number = "NOT_READ"
              /\ step_counter = 0
        /\ pc = "steps" =>
              /\ test_result.overall_status = "PASS"
              /\ Len(test_result.steps) = 1
              /\ step_counter = 0

\* The second run starts after a run that ended FAIL with records, a
\* counter above 0 and an end time.
C35_Witness ==
    /\ hist.runs = 1
    /\ pc = "connect"
    /\ hist.previous[1].overall_status = "FAIL"
    /\ hist.previous[1].steps > 0
    /\ hist.previous[1].step_counter > 0
    /\ hist.previous[1].end_time # NoTime
    /\ test_result.steps = << >>

\* C36: the status run_full_test returns is the status its final_summary
\* event announced.
C36_ReturnedIsSummary ==
    returned \in {"PASS", "FAIL"} => returned = hist.summary

\* C37: a cancellation request that arrives after the last sequence step
\* was dispatched is never observed.  The loop does not end as stopped, the
\* result never holds the cancellation record, and the overall status is
\* that of the records: FAIL exactly when one of them is a FAIL.
C37_LateCancelUnobserved ==
    hist.stop_late =>
        /\ stop_event
        /\ hist.loop_end # "stopped"
        /\ ~HasRecord(Steps, user_stop_report)
        /\ test_result.overall_status = (IF HasFail(Steps) THEN "FAIL" ELSE "PASS")

\* The flag was set while the last step was in flight, and the run returned
\* PASS.
C37_Witness ==
    /\ pc = "done"
    /\ returned = "PASS"
    /\ stop_event
    /\ hist.stop_late
    /\ hist.stop_in_flight = Len(sequence)
    /\ hist.summary = "PASS"

\* The handler calls of the initial-status step in which the DUT answered
\* all four queries with a non-empty response.
InitialStatusAnswered ==
    { n \in 1..Len(hist.observed) :
        /\ hist.observed[n].key = "test_step_check_initial_status"
        /\ hist.observed[n].readings # << >>
        /\ \A k \in InfoKeys : hist.observed[n].readings[1].info[k] # NoAnswer }

\* C38: the initial-status step reports PASS whenever the DUT answers the
\* serial, IMEI, ICCID and status queries with a non-empty response.
C38_InitialStatusPass ==
    \A n \in InitialStatusAnswered :
        /\ StepHas(hist.observed[n].counter, InitialStatusPass)
        /\ ~StepHas(hist.observed[n].counter, InitialStatusFail)

\* The handler calls of the sleep-current step whose measurement window
\* collected no sample.
SleepWithoutSamples ==
    { n \in 1..Len(hist.observed) :
        /\ hist.observed[n].key = "test_step_measure_sleep_current"
        /\ hist.observed[n].readings # << >>
        /\ hist.observed[n].readings[2].value = 0 }

\* C39: the sleep-current step reports FAIL, and no PASS, when the meter
\* collected no sample during the measurement window.
C39_NoSamplesFail ==
    \A n \in SleepWithoutSamples :
        LET k == hist.observed[n].counter
        IN  /\ ~StepHas(k, SleepPass)
            /\ \E i \in 1..Len(Steps) :
                  Steps[i].step_name = k /\ Steps[i].status = "FAIL"

\* The sequencing loop is about to run the step after simulate_battery
\* (disconnect_vin in TEST_SEQUENCE), and simulate_battery reported PASS
\* and nothing else.
AfterBatteryPass ==
    /\ pc \in {"loop", "call"}
    /\ idx > 1
    /\ sequence[idx - 1].key = "test_step_simulate_battery"
    /\ step_counter = idx - 1
    /\ StepHas(step_counter, SimulateBatteryPass)
    /\ \A i \in 1..Len(Steps) :
          Steps[i].step_name = step_counter => Steps[i].status # "FAIL"

\* C40: after simulate_battery has reported PASS the PPK2 source output is
\* still enabled when the next step begins.
C40_BatteryStaysOn == AfterBatteryPass => dut_power

====
